---------------------------- MODULE Spec2Model ----------------------------
(***************************************************************************)
(* A model of ext4.py, a read-only reader of ext4 volumes: the storage     *)
(* stream, Volume, Inode (type predicates, open_dir, open_read, path walk) *)
(* and BlockReader (construction, block lookup, read, seek, tell).         *)
(*                                                                         *)
(* Bytes are integers 0..255, byte strings are sequences of bytes, and a   *)
(* stream is a record of its length, its contents and the kind of Python   *)
(* stream object it is.  Every operation of the library is an operator     *)
(* that returns a record with the value returned, the exception raised     *)
(* (NoError when none) and the stream position it leaves; the actions at   *)
(* the end of the module apply the operators to the state.                 *)
(***************************************************************************)
EXTENDS Integers, Sequences, FiniteSets, TLC

VARIABLES
    stream,     \* the storage source handed to the volume (never written)
    streamPos,  \* the stream's own position (stream.tell())
    vol,        \* the Volume object, or NoObject before it is constructed
    ino,        \* the Inode object the caller holds, or NoObject
    reader,     \* the BlockReader / BytesIO the caller holds, or NoObject
    argMap,     \* the caller's mapping list passed to BlockReader(...)
    argSize,    \* the caller's byte_size passed to BlockReader(...)
    op,         \* the last call made: [name, ...arguments]
    ret,        \* what the last call returned (NoValue when it raised)
    err,        \* the exception the last call raised, or NoError
    ioLog,      \* the stream reads the last call issued, in order
    alone       \* two readers sharing a volume: each one's calls run by themselves

vars == <<stream, streamPos, vol, ino, reader, argMap, argSize, op, ret, err, ioLog, alone>>

----------------------------------------------------------------------------
(* Values shared by all operations *)

NoObject == [kind |-> "none"]
NoValue == [kind |-> "novalue"]
\* an exception: its class, what it is about, and the number its message
\* carries (0 when it carries none)
NoError == [type |-> "none", what |-> "", num |-> 0]

Error(type, what) == [type |-> type, what |-> what, num |-> 0]

\* class hierarchy of the library's exceptions (src/ext4.py:13-35)
IsExt4Error(e) == e.type \in {"Ext4Error", "BlockMapError", "EndOfStreamError", "MagicError"}

\* the element of a one-element set; Only({e(x) : x \in {v}}) is e of the
\* value v, computed once
Only(S) == CHOOSE x \in S : TRUE

Min(a, b) == IF a < b THEN a ELSE b
Max(a, b) == IF a > b THEN a ELSE b

\* raw[lo : hi] of Python for 0 <= lo: clipped to the length of raw
Slice(raw, lo, hi) == SubSeq(raw, lo + 1, Min(hi, Len(raw)))

\* Python's a // b and a % b for b > 0 (floor division)
FloorDiv(a, b) == IF a >= 0 THEN a \div b ELSE -((-a + b - 1) \div b)
PyMod(a, b) == a - b * FloorDiv(a, b)

\* Python's integers are unbounded, the model's end at 2^31 - 1: that number
\* stands for every number at or beyond it.  The streams of the model are
\* all shorter, so a read at an offset that large finds nothing, whichever
\* offset it is.
Beyond == 2147483647

\* a + b and a * b of Python for a, b >= 0
Plus(a, b) == IF a >= Beyond - b THEN Beyond ELSE a + b
Times(a, b) == IF a = 0 \/ b = 0 THEN 0 ELSE IF a >= Beyond \div b THEN Beyond ELSE a * b

RECURSIVE BitAnd(_, _)
\* a & b on non-negative integers
BitAnd(a, b) ==
    IF a = 0 \/ b = 0 THEN 0
    ELSE (a % 2) * (b % 2) + 2 * BitAnd(a \div 2, b \div 2)

RECURSIVE SumOver(_, _)
SumOver(s, i) == IF i > Len(s) THEN 0 ELSE s[i] + SumOver(s, i + 1)

----------------------------------------------------------------------------
(* The storage stream: a Python binary stream object *)

\* the byte a stream holds at position p: st.bytes maps the chunks written
\* to their bytes; anywhere else the stream holds zeros, or a byte pattern
\* that tells the positions apart
ByteAt(st, p) ==
    LET c == p \div st.chunk
        k == p % st.chunk
    IN IF c \in DOMAIN st.bytes /\ k < Len(st.bytes[c]) THEN st.bytes[c][k + 1]
       ELSE IF st.patterned THEN p % 251 ELSE 0

\* the n bytes at offset k of chunk c
ChunkRead(st, c, k, n) ==
    IF c \in DOMAIN st.bytes /\ k + n <= Len(st.bytes[c]) THEN SubSeq(st.bytes[c], k + 1, k + n)
    ELSE [i \in 1..n |-> ByteAt(st, c * st.chunk + k + i - 1)]

RECURSIVE ChunksFrom(_, _, _)
\* the cnt bytes from position p on, chunk after chunk
ChunksFrom(st, p, cnt) ==
    IF cnt = 0 THEN <<>>
    ELSE LET k == p % st.chunk
             n == Min(cnt, st.chunk - k)
         IN ChunkRead(st, p \div st.chunk, k, n) \o ChunksFrom(st, p + n, cnt - n)

\* stream.read(n) at position pos: up to n bytes, all that is left when n < 0
StreamRead(st, pos, n) ==
    LET avail == IF pos >= st.size THEN 0 ELSE st.size - pos
    IN ChunksFrom(st, pos, IF n < 0 THEN avail ELSE Min(n, avail))

\* a read that leaves the stream where the read before left it
read_unpositioned(v, st, pos, offset, byte_len) ==
    IF byte_len < -1 /\ st.kind = "BufferedReader"
    THEN [data |-> <<>>, pos |-> pos, err |-> Error("ValueError", "read length"),
          io |-> <<[pos |-> pos, len |-> byte_len, got |-> 0]>>]
    ELSE LET data == StreamRead(st, pos, byte_len)
         IN [data |-> data, pos |-> pos + Len(data), err |-> NoError,
             io |-> <<[pos |-> pos, len |-> byte_len, got |-> Len(data)]>>]

\* Volume.read(offset, byte_len): seek unless the stream is already there,
\* then read.  A buffered stream refuses a negative length other than -1.
VolumeRead(v, st, pos, offset, byte_len) ==
    LET target == Plus(v.offset, offset)
        pos1 == IF target # pos THEN target ELSE pos
    IN IF byte_len < -1 /\ st.kind = "BufferedReader"
       THEN [data |-> <<>>, pos |-> pos1, err |-> Error("ValueError", "read length"),
             io |-> <<[pos |-> pos1, len |-> byte_len, got |-> 0]>>]
       ELSE LET data == StreamRead(st, pos1, byte_len)
            IN [data |-> data, pos |-> pos1 + Len(data), err |-> NoError,
                io |-> <<[pos |-> pos1, len |-> byte_len, got |-> Len(data)]>>]

----------------------------------------------------------------------------
(* MappingEntry *)

MappingEntry(file_block_idx, disk_block_idx, block_count) ==
    [file_block_idx |-> file_block_idx, disk_block_idx |-> disk_block_idx,
     block_count |-> block_count]

\* The entries of a list are objects that several lists may hold.  A cell is
\* an entry together with the place (of) it has in the list of its owner, the
\* caller or the reader, or 0 when it is a new object that no other list holds.
Refs(list) ==
    [k \in 1..Len(list) |->
        [file_block_idx |-> list[k].file_block_idx, disk_block_idx |-> list[k].disk_block_idx,
         block_count |-> list[k].block_count, of |-> k]]

\* the fields of the entries of a list of cells
Fields(cells) ==
    [k \in 1..Len(cells) |->
        MappingEntry(cells[k].file_block_idx, cells[k].disk_block_idx, cells[k].block_count)]

\* the owner's list once the cells have been assigned to: a cell that is an
\* object of the list shows its fields there
Written(list, cells) ==
    [k \in 1..Len(list) |->
        IF \E c \in 1..Len(cells) : cells[c].of = k
        THEN Fields(<<cells[CHOOSE c \in 1..Len(cells) : cells[c].of = k]>>)[1]
        ELSE list[k]]

\* a copy that is the entry itself
copy_is_same_object(cell) == cell

\* MappingEntry.copy: a new object with the fields of the entry
MappingEntry_copy(cell) == [cell EXCEPT !.of = 0]

\* list(map(MappingEntry.copy, entries))
copies(cells) == [k \in 1..Len(cells) |-> MappingEntry_copy(cells[k])]

RECURSIVE create_mapping_from(_, _, _)
create_mapping_from(entries, i, file_block_idx) ==
    IF i > Len(entries) THEN <<>>
    ELSE <<MappingEntry(file_block_idx, entries[i][1], entries[i][2])>>
         \o create_mapping_from(entries, i + 1, file_block_idx + entries[i][2])

\* MappingEntry.create_mapping: 2-tuples (disk_block_idx, block_count) to entries
create_mapping(entries) == create_mapping_from(entries, 1, 0)

RECURSIVE InsertByFileBlock(_, _)
\* e put into the sorted list s after every entry whose key is <= e's (stable)
InsertByFileBlock(s, e) ==
    IF s = <<>> THEN <<e>>
    ELSE IF s[Len(s)].file_block_idx <= e.file_block_idx THEN Append(s, e)
    ELSE Append(InsertByFileBlock(SubSeq(s, 1, Len(s) - 1), e), s[Len(s)])

RECURSIVE SortByFileBlock(_)
\* entries.sort(key = file_block_idx): a stable sort
SortByFileBlock(s) ==
    IF s = <<>> THEN <<>>
    ELSE InsertByFileBlock(SortByFileBlock(SubSeq(s, 1, Len(s) - 1)), s[Len(s)])

\* whether optimize stitches entry b onto entry a
Stitches(a, b) == Plus(a.disk_block_idx, a.block_count) = b.disk_block_idx

RECURSIVE StitchFrom(_, _)
StitchFrom(entries, idx) ==
    IF idx > Len(entries) THEN entries
    ELSE IF idx + 1 <= Len(entries) /\ Stitches(entries[idx], entries[idx + 1])
    THEN StitchFrom(
            [i \in 1..(Len(entries) - 1) |->
                IF i < idx THEN entries[i]
                ELSE IF i = idx
                THEN [entries[idx] EXCEPT !.block_count = @ + entries[idx + 1].block_count]
                ELSE entries[i + 1]],
            idx)
    ELSE StitchFrom(entries, idx + 1)

\* MappingEntry.optimize: sort by file block, stitch neighbours together
optimize(entries) == StitchFrom(SortByFileBlock(entries), 1)

----------------------------------------------------------------------------
(* BlockReader *)

\* BlockReader.__init__(volume, byte_size, block_map)
\* arg is the caller's list as the constructor leaves it
BlockReader_init(v, byte_size, block_map) ==
    LET own == copies(Refs(block_map))
        block_count_sum == SumOver([i \in 1..Len(own) |-> own[i].block_count], 1)
    IN IF block_count_sum # FloorDiv(byte_size - 1, v.block_size) + 1
       THEN [obj |-> NoObject, arg |-> block_map,
             err |-> Error("BlockMapError", "byte_size doesn't match up with count of mapped blocks")]
       ELSE [obj |-> [kind |-> "BlockReader", byte_size |-> byte_size, cursor |-> 0,
                      block_map |-> Fields(optimize(own))],
             arg |-> Written(block_map, optimize(own)),
             err |-> NoError]

\* whether a mapping entry holds the file block
EntryHolds(entry, file_block_idx) ==
    entry.file_block_idx <= file_block_idx
    /\ file_block_idx < entry.file_block_idx + entry.block_count

\* BlockReader.get_block_mapping(file_block_idx)
get_block_mapping(rd, file_block_idx) ==
    LET hits == {i \in 1..Len(rd.block_map) : EntryHolds(rd.block_map[i], file_block_idx)}
    IN IF hits = {}
       THEN [val |-> NoValue, err |-> Error("BlockMapError", "file block is not mapped to disk")]
       ELSE LET i == CHOOSE j \in hits : \A k \in hits : j <= k
                entry == rd.block_map[i]
            IN [val |-> Plus(entry.disk_block_idx, file_block_idx - entry.file_block_idx),
                err |-> NoError]

\* the filter of get_range_mapping
InRange(entry, file_block_idx, block_count) ==
    EntryHolds(entry, file_block_idx)
    \/ (file_block_idx <= entry.file_block_idx
        /\ entry.file_block_idx < file_block_idx + block_count)

\* BlockReader.get_range_mapping(file_block_idx, block_count)
\* block_map is the reader's list as the call leaves it
get_range_mapping(rd, file_block_idx, block_count) ==
    LET mapping == copies(SelectSeq(Refs(rd.block_map),
                                    LAMBDA e : InRange(e, file_block_idx, block_count)))
    IN IF Len(mapping) = 0
       THEN [val |-> NoValue, block_map |-> rd.block_map,
             err |-> Error("BlockMapError", "file block is not mapped to disk")]
       ELSE LET diffL == file_block_idx - mapping[1].file_block_idx
                left == IF diffL > 0
                        THEN [mapping EXCEPT ![1].file_block_idx = @ + diffL,
                                             ![1].disk_block_idx = Plus(@, diffL),
                                             ![1].block_count = @ - diffL]
                        ELSE mapping
                n == Len(left)
                diffR == (left[n].file_block_idx + left[n].block_count)
                         - (file_block_idx + block_count)
                right == IF diffR > 0
                         THEN [left EXCEPT ![n].block_count = @ - diffR]
                         ELSE left
            IN [val |-> Fields(right), block_map |-> Written(rd.block_map, right),
                err |-> NoError]


\* the outcome of a BlockReader call: value returned, exception, cursor and
\* stream position afterwards, stream reads issued
Outcome(val, e, cursor, pos, io) ==
    [val |-> val, err |-> e, cursor |-> cursor, pos |-> pos, io |-> io]

\* an outcome together with the reader's list as the call leaves it
Holding(o, block_map) ==
    [val |-> o.val, err |-> o.err, cursor |-> o.cursor, pos |-> o.pos, io |-> o.io,
     block_map |-> block_map]

\* the end of read (src/ext4.py:841-847): advance the cursor by what was read,
\* then compare with the length asked for; byte_len is the local variable as
\* the read path left it
read_finish(rd, result, byte_len, end_of_stream_check, pos, io) ==
    LET cursor == rd.cursor + Len(result)
    IN IF Len(result) # end_of_stream_check
       THEN Outcome(NoValue,
                    [type |-> "EndOfStreamError", what |-> "stream ended before the file",
                     num |-> byte_len - Len(result)],
                    cursor, pos, io)
       ELSE Outcome(result, NoError, cursor, pos, io)

RECURSIVE read_middle(_, _, _, _, _, _)
\* the loop over mapping[1 .. -2] of the sprayed read path; acc carries the
\* parts joined so far, the remaining byte_len, the stream position, the reads
\* issued and the exception a part raised
read_middle(v, st, mapping, i, last, acc) ==
    IF i > last \/ acc.err # NoError THEN acc
    ELSE LET part == VolumeRead(v, st, acc.pos,
                                Times(mapping[i].disk_block_idx, v.block_size),
                                mapping[i].block_count * v.block_size)
         IN read_middle(v, st, mapping, i + 1, last,
                [blocks |-> acc.blocks \o part.data,
                 byte_len |-> acc.byte_len - Len(part.data),
                 pos |-> part.pos, io |-> acc.io \o part.io, err |-> part.err])

\* the sprayed read path (src/ext4.py:825-839): one stream read per entry
read_sprayed(rd, v, st, pos, mapping, offset, byte_len0, end_of_stream_check) ==
    LET first == VolumeRead(v, st, pos,
                            Plus(Times(mapping[1].disk_block_idx, v.block_size), offset),
                            mapping[1].block_count * v.block_size - offset)
        acc0 == [blocks |-> first.data, byte_len |-> byte_len0 - Len(first.data),
                 pos |-> first.pos, io |-> first.io, err |-> first.err]
        mid == read_middle(v, st, mapping, 2, Len(mapping) - 1, acc0)
    IN IF mid.err # NoError
       THEN Outcome(NoValue, mid.err, rd.cursor, mid.pos, mid.io)
       ELSE LET tail == VolumeRead(v, st, mid.pos,
                                   Times(mapping[Len(mapping)].disk_block_idx, v.block_size),
                                   mid.byte_len)
            IN IF tail.err # NoError
               THEN Outcome(NoValue, tail.err, rd.cursor, tail.pos, mid.io \o tail.io)
               ELSE read_finish(rd, mid.blocks \o tail.data, mid.byte_len,
                                end_of_stream_check, tail.pos, mid.io \o tail.io)

\* BlockReader.read(byte_len)
BlockReader_read(rd, v, st, pos, byte_len_arg) ==
    IF byte_len_arg < -1
    THEN Holding(Outcome(NoValue, Error("ValueError", "byte_len must be non-negative or -1"),
                         rd.cursor, pos, <<>>),
                 rd.block_map)
    ELSE
    LET bytes_remaining == rd.byte_size - rd.cursor
        byte_len == IF byte_len_arg = -1 THEN bytes_remaining
                    ELSE Max(0, Min(byte_len_arg, bytes_remaining))
        file_block_idx == FloorDiv(rd.cursor, v.block_size)
        offset == PyMod(rd.cursor, v.block_size)
        end_of_stream_check == byte_len
    IN IF byte_len = 0 THEN Holding(Outcome(<<>>, NoError, rd.cursor, pos, <<>>), rd.block_map)
       ELSE IF file_block_idx = FloorDiv(rd.cursor + byte_len - 1, v.block_size)
       THEN \* content within same block
            LET m == get_block_mapping(rd, file_block_idx)
            IN Holding(
               IF m.err # NoError THEN Outcome(NoValue, m.err, rd.cursor, pos, <<>>)
               ELSE LET r == VolumeRead(v, st, pos, Plus(Times(m.val, v.block_size), offset),
                                        byte_len)
                    IN IF r.err # NoError THEN Outcome(NoValue, r.err, rd.cursor, r.pos, r.io)
                       ELSE read_finish(rd, r.data, byte_len, end_of_stream_check, r.pos, r.io),
               rd.block_map)
       ELSE LET block_count == FloorDiv(byte_len - 1, v.block_size) + 1
                m == get_range_mapping(rd, file_block_idx, block_count)
            IN Holding(
               IF m.err # NoError THEN Outcome(NoValue, m.err, rd.cursor, pos, <<>>)
               ELSE IF Len(m.val) = 1
               THEN \* content within a single block chain
                    LET r == VolumeRead(v, st, pos,
                                        Plus(Times(m.val[1].disk_block_idx, v.block_size),
                                             offset),
                                        byte_len)
                    IN IF r.err # NoError THEN Outcome(NoValue, r.err, rd.cursor, r.pos, r.io)
                       ELSE read_finish(rd, r.data, byte_len, end_of_stream_check, r.pos, r.io)
               ELSE read_sprayed(rd, v, st, pos, m.val, offset, byte_len, end_of_stream_check),
               m.block_map)

SEEK_SET == 0
SEEK_CUR == 1
SEEK_END == 2

\* a seek that assigns the cursor before it tests the target
seek_assigns_first(rd, pos, seek_arg, seek_mode) ==
    LET seek == IF seek_mode = SEEK_CUR THEN seek_arg + rd.cursor
                ELSE IF seek_mode = SEEK_END THEN seek_arg + rd.byte_size
                ELSE seek_arg
    IN IF seek < 0
       THEN Holding(Outcome(NoValue, Error("OSError", "EINVAL"), seek, pos, <<>>), rd.block_map)
       ELSE Holding(Outcome(seek, NoError, seek, pos, <<>>), rd.block_map)

\* a seek that takes every offset as relative to the cursor
seek_always_relative(rd, pos, seek_arg, seek_mode) ==
    LET seek == IF seek_mode = SEEK_END THEN seek_arg + rd.byte_size ELSE seek_arg + rd.cursor
    IN IF seek < 0
       THEN Holding(Outcome(NoValue, Error("OSError", "EINVAL"), rd.cursor, pos, <<>>), rd.block_map)
       ELSE Holding(Outcome(seek, NoError, seek, pos, <<>>), rd.block_map)

\* BlockReader.seek(seek, seek_mode)
BlockReader_seek(rd, pos, seek_arg, seek_mode) ==
    LET seek == IF seek_mode = SEEK_CUR THEN seek_arg + rd.cursor
                ELSE IF seek_mode = SEEK_END THEN seek_arg + rd.byte_size
                ELSE seek_arg
    IN IF seek < 0
       THEN Holding(Outcome(NoValue, Error("OSError", "EINVAL"), rd.cursor, pos, <<>>), rd.block_map)
       ELSE Holding(Outcome(seek, NoError, seek, pos, <<>>), rd.block_map)

\* BlockReader.tell()
BlockReader_tell(rd, pos) == Holding(Outcome(rd.cursor, NoError, rd.cursor, pos, <<>>), rd.block_map)

----------------------------------------------------------------------------
(* Bounds of the BlockReader specification *)

\* the block size of the volume the BlockReader specification reads from
ReaderBlockSize == 3
\* the longest file, in blocks, of the generated mappings
MaxBlocks == 2
\* how far past the longest file a seek may go
MaxPast == 2
\* the size of the complete stream, in blocks
StreamBlocks == 302

\* the disk blocks the generated mappings place file blocks on
DiskChoices == {3, 4}

\* the scenario's file has two blocks more than the generated ones
MaxFileSize == (MaxBlocks + 2) * ReaderBlockSize
MaxCursor == MaxFileSize + MaxPast
MaxReadLen == 2 * ReaderBlockSize + 1
\* the offsets of relative seeks: before the start, back, stay, forward
SeekRelative == {-MaxCursor - 1, -1, 0, 1}

\* every placement of a file of k <= MaxBlocks blocks on the disk blocks of
\* DiskChoices, one entry per block, built as MappingEntry.create_mapping does
BlockAssignMaps ==
    UNION {{create_mapping([i \in 1..k |-> <<f[i], 1>>]) : f \in [1..k -> DiskChoices]}
           : k \in 0..MaxBlocks}

\* the mapping of the cross-extent scenario, and lists that are not a
\* contiguous run of file blocks: unsorted, overlapping, with a hole
ScenarioMap == <<MappingEntry(0, 100, 1), MappingEntry(1, 200, 1), MappingEntry(2, 300, 2)>>
ExtraMaps ==
    {ScenarioMap,
     <<MappingEntry(1, 7, 1), MappingEntry(0, 3, 1)>>,
     <<MappingEntry(0, 3, 1), MappingEntry(0, 7, 1)>>,
     <<MappingEntry(0, 3, 2), MappingEntry(1, 7, 1)>>,
     <<MappingEntry(0, 3, 1), MappingEntry(2, 4, 1)>>,
     <<MappingEntry(0, 3, 1), MappingEntry(2, 7, 1)>>,
     <<MappingEntry(0, 3, 1), MappingEntry(1, 7, 1), MappingEntry(3, 4, 1)>>}

ReaderMaps == BlockAssignMaps \cup ExtraMaps

\* the streams: a complete one that is buffered, and an unbuffered one that
\* ends inside disk block 4
ReaderStreams ==
    {[size |-> StreamBlocks * ReaderBlockSize, bytes |-> <<>>,
      chunk |-> StreamBlocks * ReaderBlockSize, patterned |-> TRUE, kind |-> "BufferedReader"],
     [size |-> 4 * ReaderBlockSize + 2, bytes |-> <<>>, chunk |-> 4 * ReaderBlockSize + 2,
      patterned |-> TRUE, kind |-> "BytesIO"]}

----------------------------------------------------------------------------
(* The BlockReader specification: a caller constructs a BlockReader over a  *)
(* volume and then calls read, seek and tell in any order.                 *)

InitReader ==
    /\ stream \in ReaderStreams
    /\ streamPos = 0
    /\ vol = [kind |-> "Volume", offset |-> 0, block_size |-> ReaderBlockSize]
    /\ ino = NoObject
    /\ reader = NoObject
    /\ argMap \in ReaderMaps
    /\ argSize \in 0..MaxFileSize
    /\ op = [name |-> "init", args |-> <<>>, before |-> 0]
    /\ ret = NoValue
    /\ err = NoError
    /\ ioLog = <<>>
    /\ alone = <<>>

\* reader = BlockReader(volume, byte_size, block_map)
Construct ==
    /\ op.name = "init"
    /\ LET r == BlockReader_init(vol, argSize, argMap)
       IN /\ reader' = r.obj
          /\ argMap' = r.arg
          /\ err' = r.err
          /\ ret' = NoValue
    /\ op' = [name |-> "BlockReader", args |-> <<argSize>>, before |-> 0]
    /\ ioLog' = <<>>
    /\ UNCHANGED <<stream, streamPos, vol, ino, argSize, alone>>

\* the state after a BlockReader call with outcome o; op.before is the
\* cursor a read was called at
ReaderCall(name, args, o) ==
    /\ reader' = [reader EXCEPT !.cursor = o.cursor, !.block_map = o.block_map]
    /\ streamPos' = o.pos
    /\ ret' = o.val
    /\ err' = o.err
    /\ ioLog' = o.io
    /\ op' = [name |-> name, args |-> args,
              before |-> IF name = "read" THEN reader.cursor ELSE 0]
    /\ UNCHANGED <<stream, vol, ino, argMap, argSize, alone>>

\* reader.read(n)
Read(n) ==
    /\ reader.kind = "BlockReader"
    /\ ReaderCall("read", <<n>>, BlockReader_read(reader, vol, stream, streamPos, n))

\* reader.seek(offset, whence); targets are capped at MaxPast bytes past the
\* end of the file
Seek(offset, whence) ==
    /\ reader.kind = "BlockReader"
    /\ LET o == BlockReader_seek(reader, streamPos, offset, whence)
       IN /\ o.cursor <= reader.byte_size + MaxPast
          /\ ReaderCall("seek", <<offset, whence>>, o)

\* reader.tell()
Tell ==
    /\ reader.kind = "BlockReader"
    /\ ReaderCall("tell", <<>>, BlockReader_tell(reader, streamPos))

\* reader.get_block_mapping(file_block_idx)
GetBlockMapping(file_block_idx) ==
    /\ reader.kind = "BlockReader"
    /\ \E m \in {get_block_mapping(reader, file_block_idx)} :
          ReaderCall("get_block_mapping", <<file_block_idx>>,
                     Holding(Outcome(m.val, m.err, reader.cursor, streamPos, <<>>),
                             reader.block_map))

\* reader.get_range_mapping(file_block_idx, block_count)
GetRangeMapping(file_block_idx, block_count) ==
    /\ reader.kind = "BlockReader"
    /\ \E m \in {get_range_mapping(reader, file_block_idx, block_count)} :
          ReaderCall("get_range_mapping", <<file_block_idx, block_count>>,
                     Holding(Outcome(IF m.err = NoError
                                     THEN [kind |-> "mapping", val |-> m.val] ELSE NoValue,
                                     m.err, reader.cursor, streamPos, <<>>),
                             m.block_map))

NextReader ==
    \/ Construct
    \/ \E n \in -2..MaxReadLen : Read(n)
    \/ \E offset \in -1..MaxCursor : Seek(offset, SEEK_SET)
    \/ \E offset \in SeekRelative, whence \in {SEEK_CUR, SEEK_END} : Seek(offset, whence)
    \/ Tell
    \/ \E file_block_idx \in 0..MaxBlocks : GetBlockMapping(file_block_idx)
    \/ \E file_block_idx \in 0..MaxBlocks, block_count \in 1..MaxBlocks :
          GetRangeMapping(file_block_idx, block_count)

SpecReader == InitReader /\ [][NextReader]_vars

----------------------------------------------------------------------------
(* Two BlockReaders of one volume, used in turn by one thread: reader is   *)
(* the pair of them, reading through the volume's stream; alone holds, for *)
(* each, the reader and the stream of a run of its calls without the       *)
(* other's.                                                                *)

\* the two files: (byte_size, block_map) of two blocks apart on the disk, and
\* of one run of two blocks
SharedFiles ==
    {<<2 * ReaderBlockSize - 1, <<MappingEntry(0, 3, 1), MappingEntry(1, 7, 1)>>>>,
     <<ReaderBlockSize + 1, <<MappingEntry(0, 4, 2)>>>>}
\* the lengths read and the positions sought
SharedReadLens == {-1, 1, ReaderBlockSize + 1}
SharedSeeks == {0, 1, ReaderBlockSize, 2 * ReaderBlockSize}

InitShared ==
    /\ stream \in ReaderStreams
    /\ streamPos = 0
    /\ vol = [kind |-> "Volume", offset |-> 0, block_size |-> ReaderBlockSize]
    /\ ino = NoObject
    /\ \E first \in SharedFiles, second \in SharedFiles :
          /\ argSize = <<first[1], second[1]>>
          /\ argMap = <<first[2], second[2]>>
          /\ reader = <<BlockReader_init(vol, first[1], first[2]).obj,
                        BlockReader_init(vol, second[1], second[2]).obj>>
    /\ alone = [k \in 1..2 |-> [reader |-> reader[k], pos |-> 0, val |-> NoValue,
                                 err |-> NoError]]
    /\ op = [name |-> "init", args |-> <<>>, before |-> 0, who |-> 0, found |-> <<0, 0>>]
    /\ ret = NoValue
    /\ err = NoError
    /\ ioLog = <<>>

\* the state after a call on reader k that had outcome o on the shared
\* stream and outcome solo in the run of reader k alone
SharedCall(k, name, args, o, solo) ==
    /\ reader' = [reader EXCEPT ![k].cursor = o.cursor, ![k].block_map = o.block_map]
    /\ streamPos' = o.pos
    /\ ret' = o.val
    /\ err' = o.err
    /\ ioLog' = o.io
    /\ alone' = [alone EXCEPT ![k] = [reader |-> [alone[k].reader EXCEPT
                                                      !.cursor = solo.cursor,
                                                      !.block_map = solo.block_map],
                                      pos |-> solo.pos, val |-> solo.val, err |-> solo.err]]
    /\ op' = [name |-> name, args |-> args, before |-> reader[k].cursor, who |-> k,
              found |-> <<streamPos, alone[k].pos>>]
    /\ UNCHANGED <<stream, vol, ino, argMap, argSize>>

\* reader[k].read(n)
SharedRead(k, n) ==
    SharedCall(k, "read", <<n>>,
               BlockReader_read(reader[k], vol, stream, streamPos, n),
               BlockReader_read(alone[k].reader, vol, stream, alone[k].pos, n))

\* reader[k].seek(offset)
SharedSeek(k, offset) ==
    SharedCall(k, "seek", <<offset, SEEK_SET>>,
               BlockReader_seek(reader[k], streamPos, offset, SEEK_SET),
               BlockReader_seek(alone[k].reader, alone[k].pos, offset, SEEK_SET))

NextShared ==
    \/ \E k \in 1..2, n \in SharedReadLens : SharedRead(k, n)
    \/ \E k \in 1..2, offset \in SharedSeeks : SharedSeek(k, offset)

SpecShared == InitShared /\ [][NextShared]_vars

----------------------------------------------------------------------------
(* What the specification of the library expects, stated without the       *)
(* library's own lookup code                                               *)

\* ceil(size / B)
BlocksFor(size, B) == (size + B - 1) \div B

\* the list is a contiguous run of file blocks from block 0 that covers a
\* file of the given size: sorted, no overlap, no hole, totals agree
ValidMapping(m, size, B) ==
    /\ \A i \in 1..Len(m) : m[i].block_count >= 1
    /\ \A i \in 1..Len(m) :
          m[i].file_block_idx = (IF i = 1 THEN 0
                                 ELSE m[i - 1].file_block_idx + m[i - 1].block_count)
    /\ SumOver([i \in 1..Len(m) |-> m[i].block_count], 1) = BlocksFor(size, B)

\* the disk block the list maps file block lb to
MapOf(m, lb) ==
    LET e == CHOOSE x \in {m[i] : i \in 1..Len(m)} :
                x.file_block_idx <= lb /\ lb < x.file_block_idx + x.block_count
    IN e.disk_block_idx + (lb - e.file_block_idx)

\* the number of bytes read(n) is to return with the cursor at c
ExpectedLen(size, c, n) == IF n = -1 THEN size - c ELSE Min(n, size - c)

\* the bytes read(n) is to return with the cursor at c
ExpectedBytes(st, m, size, B, c, n) ==
    [i \in 1..ExpectedLen(size, c, n) |->
        ByteAt(st, MapOf(m, (c + i - 1) \div B) * B + ((c + i - 1) % B))]

\* the stream holds every disk block the list names
StorageCovers(st, m, B) ==
    \A i \in 1..Len(m) : (m[i].disk_block_idx + m[i].block_count) * B <= st.size

\* the bytes the stream handed over during the last call
Obtained == SumOver([i \in 1..Len(ioLog) |-> ioLog[i].got], 1)

\* the last call was reader.read(n), n >= -1, on a reader built from a valid
\* mapping
ValidRead ==
    /\ op.name = "read"
    /\ op.args[1] >= -1
    /\ ValidMapping(argMap, argSize, vol.block_size)

----------------------------------------------------------------------------
(* Claims about BlockReader, checked under SpecReader *)

\* C1: with a valid mapping and a stream that is never short, read(n) at a
\* cursor c <= byte_size returns exactly ExpectedLen bytes, byte i being the
\* stream byte at map((c+i) div B) * B + (c+i) mod B; in the cross-extent
\* scenario a read that starts in block 0 and ends in block 1 issues two
\* stream reads.
C1_ReadReturnsMappedBytes ==
    (ValidRead /\ StorageCovers(stream, argMap, vol.block_size)
        /\ op.before <= reader.byte_size)
    => /\ err = NoError
       /\ ret = ExpectedBytes(stream, argMap, argSize, vol.block_size,
                              op.before, op.args[1])
       /\ (argMap = ScenarioMap /\ op.before = vol.block_size - 1 /\ op.args[1] = 2)
          => Len(ioLog) = 2

\* C2: a seek past byte_size succeeds, and a read(n), n >= -1, with the
\* cursor past byte_size returns the empty byte string, issues no stream
\* read, raises nothing and leaves the cursor where it was.
C2_ReadPastEndIsEmpty ==
    /\ (op.name = "seek" /\ op.args[2] = SEEK_SET /\ op.args[1] > reader.byte_size)
       => (err = NoError /\ ret = op.args[1] /\ reader.cursor = op.args[1])
    /\ (op.name = "read" /\ op.args[1] >= -1 /\ op.before > reader.byte_size)
       => (err = NoError /\ ret = <<>> /\ ioLog = <<>> /\ reader.cursor = op.before)

\* C3: when the stream hands over fewer bytes than a read asked of it, the
\* read raises EndOfStreamError whose reported shortfall is the clamped
\* request minus the bytes obtained, and the cursor has advanced by the bytes
\* obtained, on every read path.
C3_ShortReadReportsShortfall ==
    (ValidRead /\ op.before <= reader.byte_size
        /\ \E i \in 1..Len(ioLog) : ioLog[i].got < ioLog[i].len)
    => /\ err.type = "EndOfStreamError"
       /\ err.num = ExpectedLen(reader.byte_size, op.before, op.args[1]) - Obtained
       /\ reader.cursor = op.before + Obtained

\* the list a reader holds is sorted by file block and no two entries overlap
SortedNonOverlapping(m) ==
    \A i \in 1..(Len(m) - 1) :
        m[i].file_block_idx + m[i].block_count <= m[i + 1].file_block_idx

\* C9: a constructed BlockReader holds a list that is sorted, non-overlapping
\* and whose counts sum to ceil(byte_size / block_size); construction from a
\* list that, once sorted, overlaps or whose counts do not sum to that fails
\* with BlockMapError.
C9_ConstructedMappingInvariant ==
    op.name = "BlockReader"
    => /\ err = NoError
          => /\ SortedNonOverlapping(reader.block_map)
             /\ SumOver([i \in 1..Len(reader.block_map) |-> reader.block_map[i].block_count], 1)
                = BlocksFor(reader.byte_size, vol.block_size)
       /\ (~SortedNonOverlapping(SortByFileBlock(argMap))
           \/ SumOver([i \in 1..Len(argMap) |-> argMap[i].block_count], 1)
              # BlocksFor(argSize, vol.block_size))
          => err.type = "BlockMapError"

\* the absolute target of seek(offset, whence) with the cursor at c
SeekTarget(byte_size, c, offset, whence) ==
    IF whence = SEEK_CUR THEN c + offset
    ELSE IF whence = SEEK_END THEN byte_size + offset
    ELSE offset

\* C14: a call rejected for an invalid argument leaves the BlockReader
\* unchanged: read(n) with n < -1 raises ValueError, seek(offset, whence)
\* with a negative target (offset, cursor + offset or byte_size + offset)
\* raises OSError(EINVAL); the cursor keeps its value and no stream read is
\* issued.  A non-negative target is assigned to the cursor and returned.
C14_RejectedCallChangesNothing ==
    [][/\ (op'.name = "read" /\ op'.args[1] < -1)
          => /\ err'.type = "ValueError"
             /\ ret' = NoValue
             /\ reader' = reader /\ ioLog' = <<>> /\ streamPos' = streamPos
       /\ op'.name = "seek" =>
             IF SeekTarget(reader.byte_size, reader.cursor, op'.args[1], op'.args[2]) < 0
             THEN /\ err' = Error("OSError", "EINVAL")
                  /\ ret' = NoValue
                  /\ reader' = reader /\ ioLog' = <<>> /\ streamPos' = streamPos
             ELSE /\ err' = NoError
                  /\ ret' = SeekTarget(reader.byte_size, reader.cursor, op'.args[1], op'.args[2])
                  /\ reader' = [reader EXCEPT !.cursor = ret']
                  /\ ioLog' = <<>>]_vars

\* C14 witness: a relative seek to before the start of the file was rejected
\* with the cursor inside the file, where it stays
C14_WitnessRejectedSeek ==
    /\ op.name = "seek"
    /\ op.args[2] = SEEK_CUR
    /\ err = Error("OSError", "EINVAL")
    /\ reader.cursor > 0
    /\ reader.cursor + op.args[1] < 0

\* what read(n) returns from a reader newly constructed from the caller's
\* mapping and moved to x, on a stream nobody has read from
ReadAt(x, n) ==
    BlockReader_read([BlockReader_init(vol, argSize, argMap).obj EXCEPT !.cursor = x],
                     vol, stream, 0, n)

C16_SharedStreamReadersIndependent ==
    /\ \A k \in 1..2 : reader[k] = alone[k].reader
    /\ op.name \in {"read", "seek"} =>
          /\ ret = alone[op.who].val
          /\ err = alone[op.who].err
          /\ op.name = "read" => \A i \in 1..Len(ioLog) : ioLog[i].pos >= 0

\* C16 witness: a read returned bytes although the other reader had left the
\* shared stream elsewhere than the reader's own earlier read would have
C16_WitnessInterleavedRead ==
    /\ op.name = "read"
    /\ err = NoError
    /\ Len(ret) > 0
    /\ op.found[2] > 0
    /\ op.found[1] # op.found[2]
    /\ alone[3 - op.who].pos > 0

\* the disk blocks a list maps file block lb to: none, one, or several when
\* entries overlap
DiskBlocksOf(m, lb) ==
    {m[i].disk_block_idx + (lb - m[i].file_block_idx) :
        i \in {j \in 1..Len(m) : m[j].file_block_idx <= lb
                                 /\ lb < m[j].file_block_idx + m[j].block_count}}

\* the entries have at least one block each and no file block in common
NonOverlapping(m) ==
    /\ \A i \in 1..Len(m) : m[i].block_count >= 1
    /\ \A i, j \in 1..Len(m) :
          i # j => \/ m[i].file_block_idx + m[i].block_count <= m[j].file_block_idx
                   \/ m[j].file_block_idx + m[j].block_count <= m[i].file_block_idx

\* one past the last file block the list names
BlocksEnd(m) ==
    Max(0, SumOver([i \in 1..Len(m) |-> m[i].file_block_idx + m[i].block_count], 1))

\* C17: MappingEntry.optimize merges two neighbours of the sorted list only
\* when the second's disk block follows the first's disk run and its file
\* blocks follow the first's; so for every list of non-overlapping extents
\* the coalesced list maps every file block to the disk block the input maps
\* it to, and leaves unmapped what the input leaves unmapped.
C17_CoalescingKeepsMapping ==
    (reader.kind = "BlockReader" /\ NonOverlapping(argMap))
    => \A lb \in 0..BlocksEnd(argMap) :
          DiskBlocksOf(reader.block_map, lb) = DiskBlocksOf(argMap, lb)

\* the file blocks of the bytes read(n) is to return with the cursor at c
BlocksRead(size, B, c, n) ==
    IF ExpectedLen(size, c, n) <= 0 THEN {}
    ELSE (c \div B)..((c + ExpectedLen(size, c, n) - 1) \div B)

\* C18: a read(n) whose range of file blocks [cursor / B, (cursor + n - 1) / B]
\* holds a block that no entry of the reader's mapping covers raises
\* BlockMapError and returns no bytes, wherever in the range the block is and
\* whichever read path is taken.
C18_UnmappedBlockRaises ==
    (/\ op.name = "read"
     /\ op.args[1] >= -1
     /\ \E lb \in BlocksRead(reader.byte_size, vol.block_size, op.before, op.args[1]) :
           DiskBlocksOf(reader.block_map, lb) = {})
    => (err.type = "BlockMapError" /\ ret = NoValue)

\* C21: after construction a BlockReader call changes the cursor and
\* nothing else: every read, seek, tell, get_block_mapping and
\* get_range_mapping call, whether it returns or raises, leaves byte_size and
\* every entry of block_map as they were (a range is trimmed on copies), and
\* the constructor leaves the entries of the caller's list as they were.
C21_OnlyTheCursorChanges ==
    [][/\ argMap' = argMap
       /\ reader.kind = "BlockReader"
          => /\ reader'.kind = "BlockReader"
             /\ reader'.byte_size = reader.byte_size
             /\ reader'.block_map = reader.block_map]_vars

\* C21 witness: the constructor has stitched entries of the caller's list
\* together, and get_range_mapping has returned an entry trimmed to the range
C21_WitnessTrimmedRange ==
    /\ op.name = "get_range_mapping"
    /\ err = NoError
    /\ Len(reader.block_map) < Len(argMap)
    /\ \E k \in 1..Len(ret.val) :
          /\ \A i \in 1..Len(reader.block_map) : reader.block_map[i] # ret.val[k]
          /\ ret.val[k].block_count < reader.block_map[1].block_count

----------------------------------------------------------------------------
(* Packed little-endian structures (ctypes.LittleEndianStructure)          *)

\* unsigned fields of a byte string, at a byte offset
U8(buf, o) == buf[o + 1]
U16(buf, o) == buf[o + 1] + 256 * buf[o + 2]
U32(buf, o) == buf[o + 1] + 256 * buf[o + 2] + 65536 * buf[o + 3] + 16777216 * buf[o + 4]

\* ext4_struct.__getattr__ of a name that is no field: the *_lo and *_hi
\* fields read together, (hi << (8 * size)) | lo
Combine(hi, lo, size) ==
    IF hi = 0 THEN lo
    ELSE IF 8 * size >= 31 THEN Beyond
    ELSE Plus(Times(hi, 2 ^ (8 * size)), lo)

\* ctypes.sizeof of the structures, and the offset of ext4_inode.i_block
SizeofInode == 160
SizeofSuperblock == 1024
SizeofGroupDescriptor == 64
SizeofExtentHeader == 12
SizeofExtent == 12
SizeofExtentIdx == 12
IBlockOffset == 40

\* Volume.read_struct(structure, offset): the bytes of one structure;
\* from_buffer_copy raises ValueError on a buffer that is too small
read_struct(v, st, pos, size, offset) ==
    Only({ IF r.err # NoError THEN [buf |-> <<>>, err |-> r.err, pos |-> r.pos]
           ELSE IF Len(r.data) < size
           THEN [buf |-> <<>>, err |-> Error("ValueError", "Buffer size too small"),
                 pos |-> r.pos]
           ELSE [buf |-> r.data, err |-> NoError, pos |-> r.pos]
           : r \in {VolumeRead(v, st, pos, offset, size)} })

\* the fields of ext4_superblock the library reads
ext4_superblock(buf) ==
    [s_inodes_count |-> U32(buf, 0),
     s_log_block_size |-> U32(buf, 24),
     s_inodes_per_group |-> U32(buf, 40),
     s_magic |-> U16(buf, 56),
     s_inode_size |-> U16(buf, 88),
     s_uuid |-> SubSeq(buf, 105, 120),
     s_desc_size |-> U16(buf, 254)]

\* the fields of ext4_group_descriptor the library reads
ext4_group_descriptor(buf) ==
    [bg_inode_bitmap_lo |-> U32(buf, 4),
     bg_inode_table_lo |-> U32(buf, 8),
     bg_inode_bitmap_hi |-> U32(buf, 36),
     bg_inode_table_hi |-> U32(buf, 40)]

\* the names of the fields of ext4_inode
ext4_inode_fields ==
    {"i_mode", "i_uid", "i_size_lo", "i_atime", "i_ctime", "i_mtime", "i_dtime", "i_gid",
     "i_links_count", "i_blocks_lo", "i_flags", "osd1", "i_block", "i_generation",
     "i_file_acl_lo", "i_size_hi", "i_obso_faddr", "osd2", "i_extra_isize", "i_checksum_hi",
     "i_ctime_extra", "i_mtime_extra", "i_atime_extra", "i_crtime", "i_crtime_extra",
     "i_version_hi", "i_projid"}

\* the fields of ext4_inode the library reads
ext4_inode(buf) ==
    [i_mode |-> U16(buf, 0),
     i_size_lo |-> U32(buf, 4),
     i_flags |-> U32(buf, 32),
     i_size_hi |-> U32(buf, 108)]

\* inode.<name>: a field, else the pair <name>_lo / <name>_hi read together,
\* else AttributeError (ext4_struct.__getattr__)
inode_getattr(inode, name) ==
    IF name \in ext4_inode_fields /\ name \in DOMAIN inode
    THEN [val |-> inode[name], err |-> NoError]
    ELSE IF (name \o "_lo") \in ext4_inode_fields /\ (name \o "_hi") \in ext4_inode_fields
            /\ (name \o "_lo") \in DOMAIN inode /\ (name \o "_hi") \in DOMAIN inode
    THEN [val |-> Combine(inode[name \o "_hi"], inode[name \o "_lo"], 4), err |-> NoError]
    ELSE [val |-> NoValue, err |-> Error("AttributeError", name)]

\* ext4_extent_header
ext4_extent_header(buf) ==
    [eh_magic |-> U16(buf, 0), eh_entries |-> U16(buf, 2), eh_max |-> U16(buf, 4),
     eh_depth |-> U16(buf, 6)]

\* ext4_extent at index k of an array of them; ee_start joins its halves
\* an extent whose start is its low half alone
ext4_extent_low_half(buf, k) ==
    LET o == SizeofExtent * k
    IN [ee_block |-> U32(buf, o), ee_len |-> U16(buf, o + 4), ee_start |-> U32(buf, o + 8)]

ext4_extent(buf, k) ==
    LET o == SizeofExtent * k
    IN [ee_block |-> U32(buf, o), ee_len |-> U16(buf, o + 4),
        ee_start |-> Combine(U16(buf, o + 6), U32(buf, o + 8), 4)]

\* ext4_extent_idx at index k of an array of them; ei_leaf joins its halves
ext4_extent_idx(buf, k) ==
    LET o == SizeofExtentIdx * k
    IN [ei_block |-> U32(buf, o),
        ei_leaf |-> Combine(U16(buf, o + 8), U32(buf, o + 4), 4)]

\* i_mode and i_flags bits, directory entry types, magic numbers
S_IFDIR == 16384
S_IFREG == 32768
EXT4_EXTENTS_FL == 524288
EXT4_INLINE_DATA_FL == 268435456
IT_CHECKSUM == 222
ROOT_INODE == 2
SuperblockOffset == 1024
SuperblockMagic == 61267
ExtentMagic == 62218

----------------------------------------------------------------------------
(* Volume *)

\* the magic test that has lost its "not ignore_magic"
wrong_magic_always(ignore_magic, magic, expected) == magic # expected

\* "not ignore_magic and magic != expected": the test before a MagicError
wrong_magic(ignore_magic, magic, expected) == ~ignore_magic /\ magic # expected

RECURSIVE read_group_descriptors(_, _, _, _, _, _)
\* the loop of Volume.__init__ over the group descriptors
read_group_descriptors(v, st, table_offset, count, idx, acc) ==
    IF idx >= count \/ acc.err # NoError THEN acc
    ELSE Only({ read_group_descriptors(v, st, table_offset, count, idx + 1,
                    IF r.err # NoError
                    THEN [list |-> acc.list, err |-> r.err, pos |-> r.pos]
                    ELSE [list |-> Append(acc.list, ext4_group_descriptor(r.buf)),
                          err |-> NoError, pos |-> r.pos])
                : r \in {read_struct(v, st, acc.pos, SizeofGroupDescriptor,
                                     table_offset + idx * v.superblock.s_desc_size)} })

\* Volume.__init__ once the superblock is read: the block size, then the
\* group descriptors
Volume_init_groups(st, pos, offset, ignore_flags, ignore_magic, superblock) ==
    Only({ Only({ IF gds.err # NoError
                  THEN [obj |-> NoObject, err |-> gds.err, pos |-> gds.pos]
                  ELSE [obj |-> [kind |-> "Volume", offset |-> offset,
                                 ignore_flags |-> ignore_flags,
                                 ignore_magic |-> ignore_magic,
                                 superblock |-> superblock, block_size |-> block_size,
                                 group_descriptors |-> gds.list],
                        err |-> NoError, pos |-> gds.pos]
                  : gds \in {read_group_descriptors(
                                [kind |-> "Volume", offset |-> offset,
                                 ignore_flags |-> ignore_flags,
                                 ignore_magic |-> ignore_magic,
                                 superblock |-> superblock, block_size |-> block_size],
                                st, (SuperblockOffset \div block_size + 1) * block_size,
                                superblock.s_inodes_count \div superblock.s_inodes_per_group,
                                0, [list |-> <<>>, err |-> NoError, pos |-> pos])} })
           : block_size \in {2 ^ (10 + superblock.s_log_block_size)} })

\* Volume.__init__(stream, offset, ignore_flags, ignore_magic)
Volume_init(st, pos, offset, ignore_flags, ignore_magic) ==
    Only({ IF sb.err # NoError THEN [obj |-> NoObject, err |-> sb.err, pos |-> sb.pos]
           ELSE Only({ IF wrong_magic(ignore_magic, superblock.s_magic, SuperblockMagic)
                       THEN [obj |-> NoObject, err |-> Error("MagicError", "superblock"),
                             pos |-> sb.pos]
                       ELSE IF superblock.s_inodes_per_group = 0
                       THEN [obj |-> NoObject,
                             err |-> Error("ZeroDivisionError", "s_inodes_per_group"),
                             pos |-> sb.pos]
                       ELSE Volume_init_groups(st, sb.pos, offset, ignore_flags,
                                               ignore_magic, superblock)
                       : superblock \in {ext4_superblock(sb.buf)} })
           : sb \in {read_struct([kind |-> "Volume", offset |-> offset], st, pos,
                                 SizeofSuperblock, SuperblockOffset)} })

\* f"{c:02X}": a byte as two upper-case hexadecimal digits
HexDigits == <<"0", "1", "2", "3", "4", "5", "6", "7", "8", "9", "A", "B", "C", "D", "E", "F">>
Hex02X(c) == HexDigits[(c \div 16) + 1] \o HexDigits[(c % 16) + 1]

RECURSIVE HexJoin(_)
\* "".join(f"{c:02X}" for c in part)
HexJoin(part) == IF part = <<>> THEN "" ELSE Hex02X(Head(part)) \o HexJoin(Tail(part))

\* Volume.uuid: XXXXXXXX-XXXX-XXXX-XXXX-XXXXXXXXXXXX
Volume_uuid(v) ==
    HexJoin(Slice(v.superblock.s_uuid, 0, 4)) \o "-"
    \o HexJoin(Slice(v.superblock.s_uuid, 4, 6)) \o "-"
    \o HexJoin(Slice(v.superblock.s_uuid, 6, 8)) \o "-"
    \o HexJoin(Slice(v.superblock.s_uuid, 8, 10)) \o "-"
    \o HexJoin(Slice(v.superblock.s_uuid, 10, 16))

\* Volume.get_inode_group(inode_idx): (group_idx, inode_table_entry_idx)
get_inode_group(v, inode_idx) ==
    <<FloorDiv(inode_idx - 1, v.superblock.s_inodes_per_group),
      PyMod(inode_idx - 1, v.superblock.s_inodes_per_group)>>

\* list[i] of Python: a negative index counts from the end, an index outside
\* -len .. len-1 raises IndexError
list_index(list, i) ==
    IF 0 <= i /\ i < Len(list) THEN [val |-> list[i + 1], err |-> NoError]
    ELSE IF -Len(list) <= i /\ i < 0 THEN [val |-> list[Len(list) + i + 1], err |-> NoError]
    ELSE [val |-> NoValue, err |-> Error("IndexError", "list index out of range")]

\* Inode.__init__(volume, offset, inode_idx)
Inode_init(v, st, pos, offset, inode_idx) ==
    Only({ IF r.err # NoError THEN [obj |-> NoObject, err |-> r.err, pos |-> r.pos]
           ELSE [obj |-> [kind |-> "Inode", inode_idx |-> inode_idx, offset |-> offset,
                          inode |-> ext4_inode(r.buf)],
                 err |-> NoError, pos |-> r.pos]
           : r \in {read_struct(v, st, pos, SizeofInode, offset)} })

\* Volume.get_inode(inode_idx)
Volume_get_inode(v, st, pos, inode_idx) ==
    Only({ IF gd.err # NoError THEN [obj |-> NoObject, err |-> gd.err, pos |-> pos]
           ELSE Inode_init(v, st, pos,
                           Plus(Times(Combine(gd.val.bg_inode_table_hi,
                                              gd.val.bg_inode_table_lo, 4),
                                      v.block_size),
                                get_inode_group(v, inode_idx)[2] * v.superblock.s_inode_size),
                           inode_idx)
           : gd \in {list_index(v.group_descriptors, get_inode_group(v, inode_idx)[1])} })

----------------------------------------------------------------------------
(* Inode *)

\* Inode.is_dir
is_dir(i) == BitAnd(i.inode.i_mode, S_IFDIR) # 0

\* Inode.is_file
is_file(i) == BitAnd(i.inode.i_mode, S_IFREG) # 0

\* Inode.is_in_use: the inode's bit of the group's inode bitmap, counted from
\* the high end of its byte; indexing the byte read raises IndexError when the
\* stream gave none
Inode_is_in_use(i, v, st, pos) ==
    Only({ IF gd.err # NoError THEN [val |-> NoValue, err |-> gd.err, pos |-> pos]
           ELSE Only({ IF r.err # NoError THEN [val |-> NoValue, err |-> r.err, pos |-> r.pos]
                       ELSE IF Len(r.data) = 0
                       THEN [val |-> NoValue, pos |-> r.pos,
                             err |-> Error("IndexError", "index out of range")]
                       ELSE [val |-> [kind |-> "bool",
                                      val |-> (r.data[1] \div 2 ^ (7 - (get_inode_group(v, i.inode_idx)[2] % 8))) % 2 # 0],
                             err |-> NoError, pos |-> r.pos]
                       : r \in {VolumeRead(v, st, pos,
                                           Plus(Times(Combine(gd.val.bg_inode_bitmap_hi,
                                                              gd.val.bg_inode_bitmap_lo, 4),
                                                      v.block_size),
                                                get_inode_group(v, i.inode_idx)[2] \div 8),
                                           1)} })
           : gd \in {list_index(v.group_descriptors, get_inode_group(v, i.inode_idx)[1])} })

\* the offsets the index entries of an extent tree node point to
index_leaves(v, buf, entries) ==
    [k \in 1..entries |-> Times(ext4_extent_idx(buf, k - 1).ei_leaf, v.block_size)]

\* the mapping entries of the extents of an extent tree leaf
leaf_mapping(buf, entries) ==
    [k \in 1..entries |->
        Only({ MappingEntry(extent.ee_block, extent.ee_start, extent.ee_len)
               : extent \in {ext4_extent(buf, k - 1)} })]

RECURSIVE extent_nodes(_, _, _, _, _)
\* the loop of Inode.open_read over the queue of extent tree nodes: nodes
\* holds the offsets of the headers still to visit, first in first out
extent_nodes(v, st, nodes, mapping, pos) ==
    IF nodes = <<>> THEN [mapping |-> mapping, err |-> NoError, pos |-> pos]
    ELSE Only({
        IF h.err # NoError THEN [mapping |-> mapping, err |-> h.err, pos |-> h.pos]
        ELSE Only({
            IF wrong_magic(v.ignore_magic, header.eh_magic, ExtentMagic)
            THEN [mapping |-> mapping, err |-> Error("MagicError", "extent header"),
                  pos |-> h.pos]
            ELSE Only({
                IF a.err # NoError THEN [mapping |-> mapping, err |-> a.err, pos |-> a.pos]
                ELSE IF header.eh_depth # 0
                THEN extent_nodes(v, st,
                                  Tail(nodes) \o index_leaves(v, a.buf, header.eh_entries),
                                  mapping, a.pos)
                ELSE extent_nodes(v, st, Tail(nodes),
                                  mapping \o leaf_mapping(a.buf, header.eh_entries), a.pos)
                : a \in {read_struct(v, st, h.pos, SizeofExtent * header.eh_entries,
                                     Plus(Head(nodes), SizeofExtentHeader))} })
            : header \in {ext4_extent_header(h.buf)} })
        : h \in {read_struct(v, st, pos, SizeofExtentHeader, Head(nodes))} })

\* the inline-data branch of Inode.open_read, flags being self.inode.I_flags
open_read_inline(i, v, st, pos, flags) ==
    IF flags.err # NoError THEN [obj |-> NoObject, err |-> flags.err, pos |-> pos]
    ELSE IF BitAnd(flags.val, EXT4_INLINE_DATA_FL) # 0
    THEN Only({ IF r.err # NoError THEN [obj |-> NoObject, err |-> r.err, pos |-> r.pos]
                ELSE [obj |-> [kind |-> "BytesIO", data |-> r.data, cursor |-> 0],
                      err |-> NoError, pos |-> r.pos]
                : r \in {VolumeRead(v, st, pos, Plus(i.offset, IBlockOffset),
                                    inode_getattr(i.inode, "i_size").val)} })
    ELSE [obj |-> NoObject, err |-> Error("Ext4Error", "Unknown data storage mechanism."),
          pos |-> pos]

\* Inode.open_read(): a BlockReader over the extents, or a BytesIO of the
\* inline data
open_read(i, v, st, pos) ==
    IF BitAnd(i.inode.i_flags, EXT4_EXTENTS_FL) # 0
    THEN Only({ IF t.err # NoError THEN [obj |-> NoObject, err |-> t.err, pos |-> t.pos]
                ELSE Only({ [obj |-> r.obj, err |-> r.err, pos |-> t.pos]
                            : r \in {BlockReader_init(v, inode_getattr(i.inode, "i_size").val,
                                                      optimize(t.mapping))} })
                : t \in {extent_nodes(v, st, <<Plus(i.offset, IBlockOffset)>>, <<>>, pos)} })
    ELSE open_read_inline(i, v, st, pos, inode_getattr(i.inode, "I_flags"))

\* inode.open_read().read(): everything the opened stream holds
open_read_read(i, v, st, pos) ==
    Only({ IF f.err # NoError THEN [val |-> NoValue, err |-> f.err, pos |-> f.pos]
           ELSE IF f.obj.kind = "BytesIO"
           THEN [val |-> f.obj.data, err |-> NoError, pos |-> f.pos]
           ELSE Only({ [val |-> o.val, err |-> o.err, pos |-> o.pos]
                       : o \in {BlockReader_read(f.obj, v, st, f.pos, -1)} })
           : f \in {open_read(i, v, st, pos)} })

\* whether b is a UTF-8 continuation byte
IsCont(b) == 128 <= b /\ b <= 191

RECURSIVE decode_utf8(_, _, _)
\* raw.decode("utf8") from index k on: the code points, or UnicodeDecodeError
decode_utf8(raw, k, acc) ==
    IF k > Len(raw) THEN [val |-> acc, err |-> NoError]
    ELSE
    LET b == raw[k]
        has(n) == k + n <= Len(raw) /\ \A j \in 1..n : IsCont(raw[k + j])
        bad == [val |-> NoValue, err |-> Error("UnicodeDecodeError", "utf-8")]
    IN IF b < 128 THEN decode_utf8(raw, k + 1, Append(acc, b))
       ELSE IF 194 <= b /\ b <= 223 /\ has(1)
       THEN decode_utf8(raw, k + 2, Append(acc, (b - 192) * 64 + (raw[k + 1] - 128)))
       ELSE IF 224 <= b /\ b <= 239 /\ has(2)
               /\ (b = 224 => raw[k + 1] >= 160) /\ (b = 237 => raw[k + 1] <= 159)
       THEN decode_utf8(raw, k + 3,
                Append(acc, (b - 224) * 4096 + (raw[k + 1] - 128) * 64 + (raw[k + 2] - 128)))
       ELSE IF 240 <= b /\ b <= 244 /\ has(3)
               /\ (b = 240 => raw[k + 1] >= 144) /\ (b = 244 => raw[k + 1] <= 143)
       THEN decode_utf8(raw, k + 4,
                Append(acc, (b - 240) * 262144 + (raw[k + 1] - 128) * 4096
                            + (raw[k + 2] - 128) * 64 + (raw[k + 3] - 128)))
       ELSE bad

\* one turn of the while loop of Inode.open_dir, name being the decoded name
\* of the record at offset: the tuples yielded so far with this record's
dir_entry(raw_data, offset, yielded, name) ==
    IF U8(raw_data, offset + 7) = IT_CHECKSUM \/ name.err # NoError THEN yielded
    ELSE Append(yielded, <<name.val, U32(raw_data, offset), U8(raw_data, offset + 7)>>)

RECURSIVE dir_entries(_, _, _)
\* the while loop of Inode.open_dir over raw_data: the tuples yielded in
\* order, then how the generator ends: exhausted, raising err, or never
\* (endless), which is a record of rec_len 0 visited again and again
dir_entries(raw_data, offset, yielded) ==
    IF offset >= Len(raw_data)
    THEN [val |-> yielded, err |-> NoError, endless |-> FALSE]
    ELSE IF offset + 7 >= Len(raw_data)
    THEN [val |-> yielded, err |-> Error("IndexError", "index out of range"),
          endless |-> FALSE]
    ELSE Only({
        IF U8(raw_data, offset + 7) # IT_CHECKSUM /\ name.err # NoError
        THEN [val |-> yielded, err |-> name.err, endless |-> FALSE]
        ELSE IF U16(raw_data, offset + 4) = 0
        THEN [val |-> dir_entry(raw_data, offset, yielded, name), err |-> NoError,
              endless |-> TRUE]
        ELSE dir_entries(raw_data, offset + U16(raw_data, offset + 4),
                         dir_entry(raw_data, offset, yielded, name))
        : name \in {IF U8(raw_data, offset + 7) = IT_CHECKSUM
                    THEN [val |-> <<>>, err |-> NoError]
                    ELSE decode_utf8(Slice(raw_data, offset + 8,
                                           offset + 8 + U8(raw_data, offset + 6)),
                                     1, <<>>)} })

\* Inode.open_dir() with the default decode_name, run to its end
open_dir(i, v, st, pos) ==
    IF ~v.ignore_flags /\ ~is_dir(i)
    THEN [val |-> <<>>, err |-> Error("Ext4Error", "is not a directory"),
          endless |-> FALSE, pos |-> pos]
    ELSE Only({ IF r.err # NoError
                THEN [val |-> <<>>, err |-> r.err, endless |-> FALSE, pos |-> r.pos]
                ELSE Only({ [val |-> d.val, err |-> d.err, endless |-> d.endless,
                             pos |-> r.pos]
                            : d \in {dir_entries(r.val, 0, <<>>)} })
                : r \in {open_read_read(i, v, st, pos)} })

\* next((inode for file_name, inode, file_type in entries if file_name == part),
\* None): the index of the first tuple of that name, 0 when there is none
first_match(entries, part) ==
    IF \E k \in 1..Len(entries) : entries[k][1] = part
    THEN CHOOSE k \in 1..Len(entries) :
            entries[k][1] = part /\ \A j \in 1..(k - 1) : entries[j][1] # part
    ELSE 0

RECURSIVE walk_from(_, _, _, _, _, _)
\* one turn of the for loop of Inode.get_inode once open_dir has run: d is
\* what open_dir yielded, m the index of the first tuple of the part's name
walk_step(d, m, relative_path, k, v, st) ==
    IF m = 0 /\ d.err # NoError
    THEN [obj |-> NoObject, err |-> d.err, endless |-> FALSE, pos |-> d.pos]
    ELSE IF m = 0 /\ d.endless
    THEN [obj |-> NoObject, err |-> NoError, endless |-> TRUE, pos |-> d.pos]
    ELSE IF m = 0
    THEN [obj |-> NoObject, err |-> Error("FileNotFoundError", "not found"),
          endless |-> FALSE, pos |-> d.pos]
    ELSE Only({ IF n.err # NoError
                THEN [obj |-> NoObject, err |-> n.err, endless |-> FALSE, pos |-> n.pos]
                ELSE walk_from(n.obj, relative_path, k + 1, v, st, n.pos)
                : n \in {Volume_get_inode(v, st, d.pos, d.val[m][2])} })

\* the for loop of Inode.get_inode(*relative_path) from part number k on
walk_from(current_inode, relative_path, k, v, st, pos) ==
    IF k > Len(relative_path)
    THEN [obj |-> current_inode, err |-> NoError, endless |-> FALSE, pos |-> pos]
    ELSE IF ~v.ignore_flags /\ ~is_dir(current_inode)
    THEN [obj |-> NoObject, err |-> Error("Ext4Error", "is not a directory"),
          endless |-> FALSE, pos |-> pos]
    ELSE Only({ walk_step(d, first_match(d.val, relative_path[k]), relative_path, k, v, st)
                : d \in {open_dir(current_inode, v, st, pos)} })

\* Inode.get_inode(*relative_path)
Inode_get_inode(i, relative_path, v, st, pos) ==
    IF ~is_dir(i)
    THEN [obj |-> NoObject, err |-> Error("Ext4Error", "is not a directory"),
          endless |-> FALSE, pos |-> pos]
    ELSE walk_from(i, relative_path, 1, v, st, pos)

----------------------------------------------------------------------------
(* A volume image, byte by byte, laid out the way the structures above are  *)
(* read: superblock, group descriptors, inode bitmaps, inode tables,       *)
(* directory blocks and file data.                                         *)

Zeros(n) == [k \in 1..n |-> 0]
Pad(bytes, n) == bytes \o Zeros(n - Len(bytes))
Enc16(x) == <<x % 256, x \div 256>>
Enc32(x) == <<x % 256, (x \div 256) % 256, (x \div 65536) % 256, x \div 16777216>>

\* an ext4_superblock
SuperblockBytes(f) ==
    Enc32(f.inodes_count) \o Zeros(20) \o Enc32(f.log_block_size) \o Zeros(12)
    \o Enc32(f.inodes_per_group) \o Zeros(12) \o Enc16(f.magic) \o Zeros(30)
    \o Enc16(f.inode_size) \o Zeros(14) \o f.uuid \o Zeros(134) \o Enc16(f.desc_size)

\* bytes with data written over them from (zero-based) offset at on
Patch(bytes, at, data) ==
    [k \in 1..Len(bytes) |-> IF at < k /\ k <= at + Len(data) THEN data[k - at] ELSE bytes[k]]

\* a group descriptor as the file system writes it: desc_size bytes
GroupDescriptorBytes(bitmap, table, desc_size) ==
    Pad(Zeros(4) \o Enc32(bitmap) \o Enc32(table), desc_size)

\* an ext4_inode in its inode table slot
InodeBytes(f, mode, flags, size, i_block) ==
    Pad(Enc16(mode) \o Zeros(2) \o Enc32(size) \o Zeros(24) \o Enc32(flags) \o Zeros(4)
        \o Pad(i_block, 60), f.inode_size)

\* an extent tree root of depth 0 in i_block: ext4_extent_header, ext4_extent*
ExtentRootBytes(extents) ==
    Enc16(ExtentMagic) \o Enc16(Len(extents)) \o Enc16(4) \o Enc16(0) \o Enc32(0)
    \o (IF Len(extents) = 0 THEN <<>>
        ELSE Enc32(extents[1][1]) \o Enc16(extents[1][3]) \o Enc16(0) \o Enc32(extents[1][2]))

\* an ext4_extent and an ext4_extent_idx
ExtentBytes(block, len, start_hi, start_lo) ==
    Enc32(block) \o Enc16(len) \o Enc16(start_hi) \o Enc32(start_lo)
ExtentIdxBytes(block, leaf_lo, leaf_hi) ==
    Enc32(block) \o Enc32(leaf_lo) \o Enc16(leaf_hi) \o Enc16(0)

RECURSIVE Flatten(_)
Flatten(seqs) == IF seqs = <<>> THEN <<>> ELSE Head(seqs) \o Flatten(Tail(seqs))

\* an extent tree node: ext4_extent_header, then its records
ExtentNodeBytes(depth, records) ==
    Enc16(ExtentMagic) \o Enc16(Len(records)) \o Enc16(Len(records)) \o Enc16(depth)
    \o Enc32(0) \o Flatten(records)

\* an ext4_dir_entry_2 of the given rec_len
DirEntryBytes(e, rec_len) ==
    Pad(Enc32(e.inode) \o Enc16(rec_len) \o <<Len(e.name), e.file_type>> \o e.name, rec_len)

\* the least rec_len of an entry: header and name, rounded up to 4
MinRecLen(e) == ((8 + Len(e.name) + 3) \div 4) * 4

RECURSIVE DirEntriesBytes(_, _, _)
\* the entries one after another; the last one's rec_len takes what is left
DirEntriesBytes(entries, k, room) ==
    IF k > Len(entries) THEN <<>>
    ELSE IF k = Len(entries) THEN DirEntryBytes(entries[k], room)
    ELSE DirEntryBytes(entries[k], MinRecLen(entries[k]))
         \o DirEntriesBytes(entries, k + 1, room - MinRecLen(entries[k]))

\* a directory block: the entries, then the checksum tail (inode 0,
\* rec_len 12, name_len 0, file type 0xDE, checksum)
DirBlockBytes(entries, block_size) ==
    DirEntriesBytes(entries, 1, block_size - 12)
    \o Enc32(0) \o Enc16(12) \o <<0, IT_CHECKSUM>> \o <<17, 34, 51, 68>>

\* the byte the writes put at position p
WrittenAt(writes, p) ==
    IF \E k \in 1..Len(writes) : writes[k].at <= p /\ p < writes[k].at + Len(writes[k].data)
    THEN LET k == CHOOSE k \in 1..Len(writes) :
                     writes[k].at <= p /\ p < writes[k].at + Len(writes[k].data)
         IN writes[k].data[p - writes[k].at + 1]
    ELSE 0

\* a stream of the given size holding the writes over zeros
ImageOf(writes, chunk, size, kind) ==
    LET at(c, k) == WrittenAt(writes, c * chunk + k - 1)
        touched == {c \in 0..(size \div chunk) : \E k \in 1..chunk : at(c, k) # 0}
    IN [size |-> size, chunk |-> chunk, patterned |-> FALSE, kind |-> kind,
        bytes |-> [c \in touched |-> [k \in 1..chunk |-> at(c, k)]]]

\* the volume the model reads: 1 KiB blocks, two groups of six inodes
Geometry ==
    [log_block_size |-> 0, block_size |-> 1024, inodes_count |-> 12, inodes_per_group |-> 6,
     magic |-> SuperblockMagic, inode_size |-> 256, desc_size |-> 64,
     uuid |-> [k \in 1..16 |-> 16 + k],
     descriptor_block |-> 2, inode_bitmap |-> <<3, 4>>, inode_table |-> <<5, 8>>,
     root_block |-> 20, sub_block |-> 21, file_block |-> 22, blocks |-> 23]

\* entry names, as the bytes on disk
NameDot == <<46>>
NameDotDot == <<46, 46>>
NameA == <<97>>
NameB == <<98>>
NameD == <<100>>
NameF == <<102>>
NameEAcute == <<195, 169>>

DirEntry(inode, file_type, name) == [inode |-> inode, file_type |-> file_type, name |-> name]

\* the inodes of the volume, by inode number: (mode, flags, size, i_block)
Inodes ==
    LET f == Geometry
    IN << <<0, 0, 0, <<>> >>,
          <<16877, EXT4_EXTENTS_FL, f.block_size, ExtentRootBytes(<< <<0, f.root_block, 1>> >>)>>,
          <<16877, EXT4_EXTENTS_FL, f.block_size, ExtentRootBytes(<< <<0, f.sub_block, 1>> >>)>>,
          <<33188, EXT4_EXTENTS_FL, 10, ExtentRootBytes(<< <<0, f.file_block, 1>> >>)>>,
          <<33188, EXT4_INLINE_DATA_FL, 42, [k \in 1..60 |-> 100 + k]>>,
          <<33188, 0, 10, Enc32(f.file_block)>>,
          <<24996, 0, 0, <<>> >>,
          <<49645, 0, 0, <<>> >>,
          <<41471, 0, 1, NameA>>,
          <<4516, 0, 0, <<>> >>,
          <<8612, 0, 0, <<>> >>,
          <<33188, EXT4_EXTENTS_FL, 0, ExtentRootBytes(<<>>)>> >>

\* the root directory block: ".", "..", "d" and then the entries
RootDirBytes(entries) ==
    DirBlockBytes(<<DirEntry(2, 2, NameDot), DirEntry(2, 2, NameDotDot),
                    DirEntry(3, 2, NameD)>> \o entries, Geometry.block_size)

\* the inode table of a group: the slots of the inodes after number first
InodeTableBytes(f, inodes, first) ==
    Flatten([n \in 1..f.inodes_per_group |->
                Only({ InodeBytes(f, inode[1], inode[2], inode[3], inode[4])
                       : inode \in {inodes[first + n]} })])

\* the image of geometry f with the given inodes and root directory block,
\* and with the extra writes; root and variant name the image
ImageWith(f, inodes, root_dir, extra, root, variant) ==
    Only({ [root |-> root, variant |-> variant, size |-> image.size, chunk |-> image.chunk,
            patterned |-> image.patterned, kind |-> image.kind, bytes |-> image.bytes]
           : image \in {ImageOf(
                << [at |-> SuperblockOffset, data |-> SuperblockBytes(f)],
                   [at |-> f.descriptor_block * f.block_size,
                    data |-> GroupDescriptorBytes(f.inode_bitmap[1], f.inode_table[1],
                                                  f.desc_size)
                             \o GroupDescriptorBytes(f.inode_bitmap[2], f.inode_table[2],
                                                     f.desc_size)],
                   [at |-> f.inode_bitmap[1] * f.block_size, data |-> <<63>>],
                   [at |-> f.inode_bitmap[2] * f.block_size, data |-> <<31>>],
                   [at |-> f.inode_table[1] * f.block_size,
                    data |-> InodeTableBytes(f, inodes, 0)],
                   [at |-> f.inode_table[2] * f.block_size,
                    data |-> InodeTableBytes(f, inodes, f.inodes_per_group)],
                   [at |-> f.root_block * f.block_size, data |-> root_dir],
                   [at |-> f.sub_block * f.block_size,
                    data |-> DirBlockBytes(<<DirEntry(3, 2, NameDot),
                                             DirEntry(2, 2, NameDotDot),
                                             DirEntry(4, 1, NameF)>>, f.block_size)],
                   [at |-> f.file_block * f.block_size,
                    data |-> [k \in 1..10 |-> 200 + k]] >> \o extra,
                f.block_size, f.blocks * f.block_size, "BufferedReader")} })

\* the image whose root directory holds ".", "..", "d" and then the entries
VolumeImage(entries) ==
    ImageWith(Geometry, Inodes, RootDirBytes(entries), <<>>, entries, "plain")

\* the byte offset in the root directory block of the record after ".",
\* ".." and "d"
FourthRecord ==
    MinRecLen(DirEntry(2, 2, NameDot)) + MinRecLen(DirEntry(2, 2, NameDotDot))
    + MinRecLen(DirEntry(3, 2, NameD))

\* the image whose root directory holds a record "a" of rec_len 0
ZeroRecLenImage ==
    ImageWith(Geometry, Inodes,
              Patch(RootDirBytes(<<DirEntry(4, 1, NameA)>>), FourthRecord + 4, Enc16(0)),
              <<>>, <<DirEntry(4, 1, NameA)>>, "rec_len 0")

\* the image whose superblock has no magic number, and the extent header of
\* inode 4 neither
NoMagicImage ==
    ImageWith([Geometry EXCEPT !.magic = 0],
              [Inodes EXCEPT ![4][4] = Patch(@, 0, Enc16(0))], RootDirBytes(<<>>), <<>>, <<>>,
              "superblock magic")

\* the image where the extent header of inode 4 has no magic number
NoExtentMagicImage ==
    ImageWith(Geometry, [Inodes EXCEPT ![4][4] = Patch(@, 0, Enc16(0))], RootDirBytes(<<>>),
              <<>>, <<>>, "extent magic")

\* the image whose group descriptors are 32 bytes each
ShortDescriptorImage ==
    ImageWith([Geometry EXCEPT !.desc_size = 32], Inodes, RootDirBytes(<<>>), <<>>, <<>>,
              "desc_size 32")

\* the blocks of the extent tree of inode 4 in TreeImage, and the disk
\* blocks its extents name: the second one's number has a high half
Tree == [node |-> 12, leaves |-> <<11, 10>>, start_hi |-> 1, start_lo |-> 7, third |-> 19]

\* the image where inode 4 has three blocks and an extent tree of depth 2:
\* the root in i_block, one index node, two leaves visited in the order of
\* the index records, which is not the order of the file blocks
TreeImage ==
    ImageWith(Geometry,
              [Inodes EXCEPT ![4] = <<33188, EXT4_EXTENTS_FL, 2 * Geometry.block_size + 10,
                                      ExtentNodeBytes(2, <<ExtentIdxBytes(0, Tree.node, 0)>>)>>],
              RootDirBytes(<<>>),
              << [at |-> Tree.node * Geometry.block_size,
                  data |-> ExtentNodeBytes(1, <<ExtentIdxBytes(1, Tree.leaves[1], 0),
                                                ExtentIdxBytes(0, Tree.leaves[2], 0)>>)],
                 [at |-> Tree.leaves[1] * Geometry.block_size,
                  data |-> ExtentNodeBytes(0, <<ExtentBytes(1, 1, Tree.start_hi, Tree.start_lo),
                                                ExtentBytes(2, 1, 0, Tree.third)>>)],
                 [at |-> Tree.leaves[2] * Geometry.block_size,
                  data |-> ExtentNodeBytes(0, <<ExtentBytes(0, 1, 0, Geometry.file_block)>>)] >>,
              <<>>, "extent tree")

----------------------------------------------------------------------------
(* The volume specification: a caller opens the volume on an image and     *)
(* then looks inodes up by number, asks their type, reads their content,   *)
(* lists them as directories and walks paths from them.                    *)

MaxDirEntries == 2
MaxPathLen == 2
InodeMargin == 1

\* the records a root directory may hold after ".", ".." and "d": a file,
\* the record of a deleted file (inode 0), a block device, a file with a
\* two-byte name
DirChoices ==
    {DirEntry(4, 1, NameA), DirEntry(0, 1, NameA), DirEntry(7, 4, NameB),
     DirEntry(5, 1, NameEAcute)}

DirLayouts == UNION {[1..n -> DirChoices] : n \in 0..MaxDirEntries}

\* the names a path is made of, decoded
PathNames == {<<97>>, <<100>>, <<102>>}

Paths == UNION {[1..n -> PathNames] : n \in 0..MaxPathLen}

InodeIndexes == (-InodeMargin)..(Geometry.inodes_count + InodeMargin)

\* the images a volume may be opened on
VolumeImages ==
    {VolumeImage(entries) : entries \in DirLayouts}
    \cup {ZeroRecLenImage, NoMagicImage, NoExtentMagicImage, ShortDescriptorImage, TreeImage}

\* the contents of the stream a volume is opened on: the stream variable
\* names the image by the entries of its root directory and its variant
Storage(s) ==
    CHOOSE image \in VolumeImages : image.root = s.root /\ image.variant = s.variant

InitVolume ==
    /\ stream \in {[root |-> image.root, variant |-> image.variant, size |-> image.size,
                      kind |-> image.kind] : image \in VolumeImages}
    /\ streamPos = 0
    /\ vol = NoObject
    /\ ino = NoObject
    /\ reader = NoObject
    /\ argMap = <<>>
    /\ argSize = 0
    /\ op = [name |-> "init", args |-> <<>>, before |-> 0]
    /\ ret = NoValue
    /\ err = NoError
    /\ ioLog = <<>>
    /\ alone = <<>>

\* the state after a call on the volume or on the inode at hand
VolumeCall(name, args, val, e, pos) ==
    /\ op' = [name |-> name, args |-> args, before |-> 0]
    /\ ret' = val
    /\ err' = e
    /\ streamPos' = pos
    /\ ioLog' = <<>>
    /\ UNCHANGED <<stream, reader, argMap, argSize, alone>>

\* vol = Volume(stream, 0, ignore_flags, ignore_magic)
OpenVolume(ignore_flags, ignore_magic) ==
    /\ op.name = "init"
    /\ \E r \in {Volume_init(Storage(stream), streamPos, 0, ignore_flags, ignore_magic)} :
          /\ vol' = r.obj
          /\ ino' = NoObject
          /\ VolumeCall("Volume", <<ignore_flags, ignore_magic>>, NoValue, r.err, r.pos)

\* ino = vol.get_inode(inode_idx)
GetInode(inode_idx) ==
    /\ vol.kind = "Volume"
    /\ \E r \in {Volume_get_inode(vol, Storage(stream), streamPos, inode_idx)} :
          /\ ino' = r.obj
          /\ VolumeCall("get_inode", <<inode_idx>>, NoValue, r.err, r.pos)
    /\ UNCHANGED vol

\* vol.uuid
Uuid ==
    /\ vol.kind = "Volume"
    /\ VolumeCall("uuid", <<>>, [kind |-> "str", val |-> Volume_uuid(vol)], NoError, streamPos)
    /\ UNCHANGED <<vol, ino>>

\* ino.is_dir
IsDir ==
    /\ ino.kind = "Inode"
    /\ VolumeCall("is_dir", <<>>, [kind |-> "bool", val |-> is_dir(ino)], NoError, streamPos)
    /\ UNCHANGED <<vol, ino>>

\* ino.is_file
IsFile ==
    /\ ino.kind = "Inode"
    /\ VolumeCall("is_file", <<>>, [kind |-> "bool", val |-> is_file(ino)], NoError, streamPos)
    /\ UNCHANGED <<vol, ino>>

\* ino.is_in_use
IsInUse ==
    /\ ino.kind = "Inode"
    /\ \E r \in {Inode_is_in_use(ino, vol, Storage(stream), streamPos)} :
          VolumeCall("is_in_use", <<>>, r.val, r.err, r.pos)
    /\ UNCHANGED <<vol, ino>>

\* ino.open_read().read()
OpenRead ==
    /\ ino.kind = "Inode"
    /\ \E r \in {open_read_read(ino, vol, Storage(stream), streamPos)} :
          VolumeCall("open_read", <<>>,
                     IF r.err = NoError THEN [kind |-> "bytes", val |-> r.val] ELSE NoValue,
                     r.err, r.pos)
    /\ UNCHANGED <<vol, ino>>

\* list(ino.open_dir()): the tuples the generator yields and how it ends
OpenDir ==
    /\ ino.kind = "Inode"
    /\ \E r \in {open_dir(ino, vol, Storage(stream), streamPos)} :
          VolumeCall("open_dir", <<>>,
                     [kind |-> "entries", val |-> r.val, endless |-> r.endless],
                     r.err, r.pos)
    /\ UNCHANGED <<vol, ino>>

\* ino.get_inode(*relative_path)
Walk(relative_path) ==
    /\ ino.kind = "Inode"
    /\ \E r \in {Inode_get_inode(ino, relative_path, vol, Storage(stream), streamPos)} :
          VolumeCall("walk", <<relative_path>>,
                     IF r.err = NoError
                     THEN [kind |-> "inode", val |-> r.obj, endless |-> r.endless]
                     ELSE NoValue,
                     r.err, r.pos)
    /\ UNCHANGED <<vol, ino>>

NextVolume ==
    \/ \E ignore_flags \in BOOLEAN, ignore_magic \in BOOLEAN :
          OpenVolume(ignore_flags, ignore_magic)
    \/ \E inode_idx \in InodeIndexes : GetInode(inode_idx)
    \/ Uuid
    \/ IsDir
    \/ IsFile
    \/ IsInUse
    \/ OpenRead
    \/ OpenDir
    \/ \E relative_path \in Paths : Walk(relative_path)

SpecVolume == InitVolume /\ [][NextVolume]_vars

----------------------------------------------------------------------------
(* What the volume operations are specified to do                          *)

\* the file type bits of i_mode
TypeMask == 61440

\* the inode is of the given type: its type nibble is exactly that type
HasType(i, type) == BitAnd(i.inode.i_mode, TypeMask) = type

\* the bytes the image holds at offset .. offset + n
ImageBytes(offset, n) == ChunksFrom(Storage(stream), offset, n)

\* the byte offset of the inode table slot of an inode number that is in range
SlotOffset(index) ==
    LET per_group == vol.superblock.s_inodes_per_group
        descriptor == vol.group_descriptors[((index - 1) \div per_group) + 1]
    IN Plus(Times(Combine(descriptor.bg_inode_table_hi, descriptor.bg_inode_table_lo, 4),
                  vol.block_size),
            ((index - 1) % per_group) * vol.superblock.s_inode_size)

\* the inode number is one the volume has
InRangeIndex(index) ==
    /\ index >= 1
    /\ (index - 1) \div vol.superblock.s_inodes_per_group < Len(vol.group_descriptors)

RECURSIVE LiveEntries(_, _)
\* the records of a directory's content in on-disk order, as (name, inode
\* number, file type), without the checksum records and the records of
\* inode number 0
LiveEntries(raw, offset) ==
    IF offset + 8 > Len(raw) THEN <<>>
    ELSE LET inode == U32(raw, offset)
             rec_len == U16(raw, offset + 4)
             name_len == U8(raw, offset + 6)
             file_type == U8(raw, offset + 7)
             name == decode_utf8(Slice(raw, offset + 8, offset + 8 + name_len), 1, <<>>).val
         IN (IF file_type # IT_CHECKSUM /\ inode # 0
             THEN << <<name, inode, file_type>> >> ELSE <<>>)
            \o (IF rec_len = 0 THEN <<>> ELSE LiveEntries(raw, offset + rec_len))

\* the content of the inode at hand, as the library reads it
Content(i) == open_read_read(i, vol, Storage(stream), 0)

RECURSIVE WalkTo(_, _, _)
\* where a path leads from an inode through directories: the inode of the
\* first entry of the name, part after part
WalkTo(current, relative_path, k) ==
    IF ~HasType(current, S_IFDIR) \/ Content(current).err # NoError
    THEN [status |-> "other", inode |-> NoObject]
    ELSE IF k > Len(relative_path) THEN [status |-> "found", inode |-> current]
    ELSE LET entries == LiveEntries(Content(current).val, 0)
             m == first_match(entries, relative_path[k])
         IN IF m = 0 THEN [status |-> "missing", inode |-> NoObject]
            ELSE IF ~InRangeIndex(entries[m][2]) THEN [status |-> "other", inode |-> NoObject]
            ELSE WalkTo(Volume_get_inode(vol, Storage(stream), 0, entries[m][2]).obj,
                        relative_path, k + 1)

\* C4: open_dir never yields a record whose file type is 0xDE (checksum)
\* and never yields a record whose inode number is 0; when it runs to its
\* end it has yielded all other records, in on-disk order, as (decoded name,
\* inode number, file type).
C4_OpenDirSkipsDeadRecords ==
    op.name = "open_dir" =>
        /\ \A k \in 1..Len(ret.val) : ret.val[k][3] # IT_CHECKSUM /\ ret.val[k][2] # 0
        /\ (err = NoError /\ ~ret.endless) => ret.val = LiveEntries(Content(ino).val, 0)

\* C5: for an inode with INLINE_DATA set and EXTENTS clear, open_read()
\* does not raise and read(-1) on what it returns yields exactly the first
\* size bytes of the inode's 60-byte i_block payload.
C5_InlineDataIsRead ==
    (/\ op.name = "open_read"
     /\ BitAnd(ino.inode.i_flags, EXT4_INLINE_DATA_FL) # 0
     /\ BitAnd(ino.inode.i_flags, EXT4_EXTENTS_FL) = 0)
    => /\ err = NoError
       /\ ret = [kind |-> "bytes",
                 val |-> ImageBytes(ino.offset + IBlockOffset,
                                    Combine(ino.inode.i_size_hi, ino.inode.i_size_lo, 4))]

\* C6: for an inode with neither EXTENTS nor INLINE_DATA set, open_read()
\* fails with the library's own unknown-storage error, an Ext4Error, and
\* with no other kind of exception.
C6_UnknownStorageIsExt4Error ==
    (/\ op.name = "open_read"
     /\ BitAnd(ino.inode.i_flags, EXT4_INLINE_DATA_FL) = 0
     /\ BitAnd(ino.inode.i_flags, EXT4_EXTENTS_FL) = 0)
    => /\ err = Error("Ext4Error", "Unknown data storage mechanism.")
       /\ ret = NoValue

\* C7: Volume.get_inode(index) fails with an out-of-range error whenever
\* index < 1 or (index - 1) / inodes_per_group >= group_count, returning no
\* inode; for every index in range it parses the inode at
\* inode_table_base(group) + ((index - 1) mod inodes_per_group) * inode_size.
C7_GetInodeChecksRange ==
    op.name = "get_inode" =>
        IF InRangeIndex(op.args[1])
        THEN /\ err = NoError
             /\ ino = [kind |-> "Inode", inode_idx |-> op.args[1],
                       offset |-> SlotOffset(op.args[1]),
                       inode |-> ext4_inode(ImageBytes(SlotOffset(op.args[1]), SizeofInode))]
        ELSE /\ err.type = "IndexError"
             /\ ino = NoObject

\* C8: is_dir is true exactly for the inodes whose type nibble
\* (mode & 0xF000) is 0x4000 and is_file exactly for those whose type nibble
\* is 0x8000; a FIFO, character device, block device, symlink or socket is
\* neither.
C8_TypePredicatesMatchTypeNibble ==
    /\ op.name = "is_dir" => ret.val = HasType(ino, S_IFDIR)
    /\ op.name = "is_file" => ret.val = HasType(ino, S_IFREG)

\* C10: a path walk through directories returns the inode that the first
\* entry (in on-disk order) of each part's name refers to, the starting
\* inode itself for an empty path; when a part has no entry of its name the
\* walk fails with a file-not-found error and returns no inode.
C10_WalkFollowsFirstMatch ==
    op.name = "walk" =>
        LET expected == WalkTo(ino, op.args[1], 1)
        IN /\ expected.status = "found" =>
                  err = NoError /\ ret.val = expected.inode /\ ~ret.endless
           /\ expected.status = "missing" =>
                  err.type = "FileNotFoundError" /\ ret = NoValue

\* the exception of a walk or a listing that meets a non-directory
NotADirectory == Error("Ext4Error", "is not a directory")

\* the inode a walk of the first k parts of the path reaches from the inode
\* at hand
ReachedBy(relative_path, k) ==
    walk_from(ino, SubSeq(relative_path, 1, k), 1, vol, Storage(stream), 0)

\* C11: a path walk enforces directory-ness only when ignore_flags is false:
\* then a starting inode or an intermediate component that is not marked as
\* a directory makes it fail with the not-a-directory error; on a volume
\* opened with ignore_flags = true a walk never fails with that error, also
\* when the starting inode is not marked as a directory.
C11_WalkChecksDirectoryUnlessIgnored ==
    op.name = "walk" =>
        /\ vol.ignore_flags => err # NotADirectory
        /\ (~vol.ignore_flags /\ ~is_dir(ino)) => err = NotADirectory
        /\ \A k \in 1..(Len(op.args[1]) - 1) :
              Only({ (~vol.ignore_flags /\ reached.err = NoError /\ ~reached.endless
                        /\ ~is_dir(reached.obj))
                     => err = NotADirectory
                     : reached \in {ReachedBy(op.args[1], k)} })

RECURSIVE RecordsEnd(_, _)
\* the cumulative rec_len of the records of a directory's content, visited
\* from offset on until the content is used up or a record has rec_len 0
RecordsEnd(raw, offset) ==
    IF offset + 8 > Len(raw) \/ U16(raw, offset + 4) = 0 THEN offset
    ELSE RecordsEnd(raw, offset + U16(raw, offset + 4))

\* C12: open_dir terminates for every directory content, and ends exactly
\* when the cumulative rec_len of the records visited equals the inode
\* size; it does not loop forever or keep yielding on a record whose
\* rec_len is 0.
C12_OpenDirTerminates ==
    (op.name = "open_dir" /\ Content(ino).err = NoError /\ (vol.ignore_flags \/ is_dir(ino)))
    => /\ ~ret.endless
       /\ err = NoError =>
             RecordsEnd(Content(ino).val, 0) = Combine(ino.inode.i_size_hi, ino.inode.i_size_lo, 4)

\* the magic number of the superblock of the image
ImageSuperblockMagic == U16(ImageBytes(SuperblockOffset + 56, 2), 0)

\* the magic number of the extent tree root in the i_block of an inode
RootExtentMagic(i) == U16(ImageBytes(i.offset + IBlockOffset, 2), 0)

\* the 16 bytes of the image's superblock that hold the UUID, formatted
ImageUuid ==
    Only({ HexJoin(SubSeq(u, 1, 4)) \o "-" \o HexJoin(SubSeq(u, 5, 6)) \o "-"
           \o HexJoin(SubSeq(u, 7, 8)) \o "-" \o HexJoin(SubSeq(u, 9, 10)) \o "-"
           \o HexJoin(SubSeq(u, 11, 16))
           : u \in {ImageBytes(SuperblockOffset + 104, 16)} })

\* C13: a wrong magic is rejected with MagicError exactly when ignore_magic
\* is false: Volume(...) on a superblock whose magic is not 0xEF53 and
\* open_read on an extent tree root whose magic is not 0xF30A raise
\* MagicError by default; with ignore_magic = true neither raises it, the
\* construction succeeds and uuid is the 16 bytes of the superblock.
C13_MagicCheckedUnlessIgnored ==
    /\ op.name = "Volume" =>
          /\ (ImageSuperblockMagic # SuperblockMagic /\ ~op.args[2])
             => (err.type = "MagicError" /\ vol = NoObject)
          /\ (ImageSuperblockMagic = SuperblockMagic \/ op.args[2])
             => (err = NoError /\ vol.kind = "Volume" /\ vol.ignore_magic = op.args[2])
    /\ op.name = "uuid" => (err = NoError /\ ret.val = ImageUuid)
    /\ (op.name = "open_read" /\ BitAnd(ino.inode.i_flags, EXT4_EXTENTS_FL) # 0) =>
          /\ (RootExtentMagic(ino) # ExtentMagic /\ ~vol.ignore_magic)
             => (err.type = "MagicError" /\ ret = NoValue)
          /\ vol.ignore_magic => err.type # "MagicError"
    /\ err.type = "MagicError" => (IF op.name = "Volume" THEN ~op.args[2] ELSE ~vol.ignore_magic)

\* C13 witness: on the image without magic numbers, opened with
\* ignore_magic = true, open_read of inode 4 has returned the file's bytes
C13_WitnessIgnoredMagic ==
    /\ stream.variant = "superblock magic"
    /\ op.name = "open_read"
    /\ vol.ignore_magic
    /\ ino.inode_idx = 4
    /\ RootExtentMagic(ino) # ExtentMagic
    /\ ImageSuperblockMagic # SuperblockMagic
    /\ err = NoError
    /\ ret.val = ImageBytes(Geometry.file_block * Geometry.block_size, 10)

\* the desc_size bytes of the descriptor of group g on the image
DescriptorOnImage(g) ==
    ImageBytes((SuperblockOffset \div vol.block_size + 1) * vol.block_size
                   + g * vol.superblock.s_desc_size,
               vol.superblock.s_desc_size)

\* a block index of a descriptor: the low half at lo and, when the descriptor
\* is long enough to hold it, the high half at hi
DescriptorBlock(descriptor, lo, hi) ==
    IF Len(descriptor) >= hi + 4
    THEN Combine(U32(descriptor, hi), U32(descriptor, lo), 4)
    ELSE U32(descriptor, lo)

\* the group and the place in the group of an inode number
GroupOf(index) == (index - 1) \div vol.superblock.s_inodes_per_group
PlaceOf(index) == (index - 1) % vol.superblock.s_inodes_per_group

\* C19: a group descriptor is a record of desc_size bytes: the inode table
\* and inode bitmap blocks of group g come from the desc_size bytes at
\* table_offset + g * desc_size alone (with desc_size 32 the high halves are
\* not the bytes of descriptor g + 1), so get_inode reads the inode at
\* bg_inode_table * block_size + place * inode_size and is_in_use the bit at
\* bg_inode_bitmap * block_size.
C19_DescriptorIsDescSizeBytes ==
    /\ (op.name = "get_inode" /\ InRangeIndex(op.args[1]))
       => /\ err = NoError
          /\ ino.offset =
                Plus(Times(DescriptorBlock(DescriptorOnImage(GroupOf(op.args[1])), 8, 40),
                           vol.block_size),
                     PlaceOf(op.args[1]) * vol.superblock.s_inode_size)
    /\ (op.name = "is_in_use" /\ InRangeIndex(ino.inode_idx))
       => /\ err = NoError
          /\ ret.val =
                ((ImageBytes(
                     Plus(Times(DescriptorBlock(DescriptorOnImage(GroupOf(ino.inode_idx)), 4, 36),
                                vol.block_size),
                          PlaceOf(ino.inode_idx) \div 8), 1)[1]
                  \div 2 ^ (7 - (PlaceOf(ino.inode_idx) % 8))) % 2 # 0)

RECURSIVE LeafRecords(_)
\* the leaf records below the extent tree node at a byte offset of the image,
\* children taken from the last to the first: (ee_block, ee_start, ee_len)
\* with ee_start = ee_start_lo | ee_start_hi << 32, a child at
\* (ei_leaf_lo | ei_leaf_hi << 32) * block_size
LeafRecords(offset) ==
    LET entries == U16(ImageBytes(offset + 2, 2), 0)
        depth == U16(ImageBytes(offset + 6, 2), 0)
        record(k) == ImageBytes(offset + 12 * k, 12)
    IN IF entries = 0 THEN <<>>
       ELSE IF depth = 0
       THEN [k \in 1..entries |->
                MappingEntry(U32(record(entries + 1 - k), 0),
                             Combine(U16(record(entries + 1 - k), 6),
                                     U32(record(entries + 1 - k), 8), 4),
                             U16(record(entries + 1 - k), 4))]
       ELSE Flatten([k \in 1..entries |->
                LeafRecords(Times(Combine(U16(record(entries + 1 - k), 8),
                                          U32(record(entries + 1 - k), 4), 4),
                                  vol.block_size))])

\* what reading the whole file through a list of extents gives
ReadThrough(mapping, size) ==
    LET made == BlockReader_init(vol, size, mapping)
    IN IF made.err # NoError THEN [val |-> NoValue, err |-> made.err]
       ELSE LET o == BlockReader_read(made.obj, vol, Storage(stream), 0, -1)
            IN [val |-> IF o.err = NoError THEN [kind |-> "bytes", val |-> o.val] ELSE NoValue,
                err |-> o.err]

\* C20: for an inode with the EXTENTS flag and a finite extent tree, the
\* traversal of open_read ends with an empty queue and its mapping list holds
\* exactly one entry (ee_block, ee_start_lo | ee_start_hi << 32, ee_len) for
\* each leaf record of each leaf reachable from the root in i_block through
\* index records, so the sorted list does not depend on the order of the
\* visits, and the file is read through that list.
C20_TraversalCollectsEveryLeafRecord ==
    (op.name = "open_read" /\ BitAnd(ino.inode.i_flags, EXT4_EXTENTS_FL) # 0)
    => Only({ /\ t.err.type \in {"none", "MagicError"}
              /\ t.err # NoError => (err = t.err /\ ret = NoValue)
              /\ t.err.type = "MagicError" => ~vol.ignore_magic
              /\ t.err = NoError =>
                    Only({ /\ Len(t.mapping) = Len(leaves)
                           /\ SortByFileBlock(t.mapping) = SortByFileBlock(leaves)
                           /\ ret = ReadThrough(leaves, inode_getattr(ino.inode, "i_size").val).val
                           /\ err = ReadThrough(leaves, inode_getattr(ino.inode, "i_size").val).err
                           : leaves \in {LeafRecords(ino.offset + IBlockOffset)} })
              : t \in {extent_nodes(vol, Storage(stream), <<ino.offset + IBlockOffset>>,
                                    <<>>, 0)} })

\* C20 witness: open_read on the file whose tree has two levels of index
\* nodes over two leaves with three records, one of them with a high half
C20_WitnessTreeOfDepthTwo ==
    /\ op.name = "open_read"
    /\ stream.variant = "extent tree"
    /\ ino.inode_idx = 4
    /\ U16(ImageBytes(ino.offset + IBlockOffset + 6, 2), 0) = 2
    /\ Len(LeafRecords(ino.offset + IBlockOffset)) = 3
    /\ \E k \in 1..3 : LeafRecords(ino.offset + IBlockOffset)[k].disk_block_idx = Beyond
    /\ LeafRecords(ino.offset + IBlockOffset)
          # extent_nodes(vol, Storage(stream), <<ino.offset + IBlockOffset>>, <<>>, 0).mapping

============================================================================
